---- MODULE Spec2Model ----
(***************************************************************************)
(* Orchestration protocol of the audio analyzer: the module-level state of *)
(* analysis/analyzer.ts (shared worker, single-flight init, per-call       *)
(* message listeners), the worker's onmessage handler                      *)
(* (workers/essentia.worker.ts), the useAnalysis hook as ReferenceView     *)
(* uses it, and the useBatchAnalysis hook with the BatchView controls.     *)
(*                                                                         *)
(* The main thread is single threaded: one action is one task of the event *)
(* loop together with the microtasks (promise continuations) it triggers.  *)
(* The main-thread state is bundled into a record S so that the handlers   *)
(* are operators from state to state, composed as the code composes them.  *)
(***************************************************************************)
EXTENDS Integers, Sequences, FiniteSets, TLC

VARIABLES
  sharedWorker,   \* analyzer.ts: sharedWorker !== null
  workerReady,    \* analyzer.ts: workerReady
  initPromise,    \* analyzer.ts: initPromise (0 = null, else a promise id)
  initResult,     \* the state and value of the promise initPromise holds
  nextPromise,    \* identity of the next promise object created by ensureInit
  inits,          \* init() invocations made through the API, in call order
  waiters,        \* reactions registered on init promises, in registration order
  calls,          \* analyze()/analyzeBpmKey() invocations, in call order
  listeners,      \* 'message' listeners registered on the worker, in order
  toWorker,       \* requests posted to the worker, not yet handled
  toMain,         \* responses posted by the worker, not yet dispatched
  essentia,       \* worker: essentia !== null
  initFailures,   \* number of init requests the worker answered with 'error'
  reported,       \* history: the version values the worker posted in 'ready'
  initPosted,     \* number of 'init' requests ever posted
  hooks,          \* useAnalysis instances of ReferenceView (tracks A and B)
  items,          \* useBatchAnalysis: itemsRef.current (and the items state)
  isRunning,      \* useBatchAnalysis: isRunning
  abortRef,       \* useBatchAnalysis: abortRef.current
  runs,           \* startAnalysis invocations
  nextFile,       \* number of files ever added (item identities)
  removedWhileRunning, \* history: removeItem removed an item during a run
  threw,          \* history: the items whose decode or analyze threw
  input,          \* the arguments of a function of the program examined alone
  output          \* <<>> before that function has run, then <<its result>>

vars == <<sharedWorker, workerReady, initPromise, initResult, nextPromise, inits,
          waiters, calls, listeners, toWorker, toMain, essentia, initFailures,
          reported, initPosted, hooks, items, isRunning, abortRef, runs, nextFile,
          removedWhileRunning, threw, input, output>>

(******************************  bounds  ***********************************)
MaxInits == 2          \* init() invocations through the API
MaxCalls == 1          \* analyze()/analyzeBpmKey() invocations
MaxInitFailures == 1   \* init requests the worker may fail
MaxAdded == 2          \* files ever added to the batch queue
MaxRuns == 2           \* startAnalysis invocations
MaxDrops == 1          \* files dropped on each track of ReferenceView
MaxSamples == 2        \* samples of a channel handed to the worker
MaxOffered == 22       \* files ever handed to addFiles when the queue is filled
MaxProcessed == 1      \* items of the filled queue whose decode settles
MaxSignalSamples == 4  \* samples of a channel whose peak and silence are measured
MaxPosts == 2          \* calls made in turn with the same caller arrays

(************************  program constants  ******************************)
MAX_FILES == 20
NULL == "null"
NotInitialized == "Analyzer not initialized"
\* The source texts of the three prefixes and of the default message are
\* Japanese; only their being non-empty matters here.
InitErrorPrefix == "WASM init error: "
AnalyzeErrorPrefix == "analyze error: "
BpmKeyErrorPrefix == "BPM/Key analyze error: "
DefaultFailure == "analysis failed"

Instances == {"A", "B"}
HookIds == {1, 2}                    \* ReferenceView: analysisA, analysisB
Versions == {"2.1.1", "undefined"}   \* essentia.version as the worker reports it
InnerMessages == {"", "abort"}       \* e.message of an exception in the worker
SampleRates == {0, 44100}            \* sampleRate argument of an API call
DecoderRate == 44100                 \* AudioContext({ sampleRate: 44100 })

(***************************  messages  ************************************)
Msg(type, req, phase, percent, data) ==
  [type |-> type, req |-> req, phase |-> phase, percent |-> percent, data |-> data]

postProgress(req, phase, percent) == Msg("progress", req, phase, percent, "")

postPartial(req, data) == Msg("partial", req, "", 0, data)

Request(type, req, sampleRate) == [type |-> type, req |-> req, sampleRate |-> sampleRate]

NoCont == [kind |-> "none", id |-> 0]
HookCont(h) == [kind |-> "hook", id |-> h]
RunCont(r) == [kind |-> "run", id |-> r]

NullResult == [isNull |-> TRUE, fileInfo |-> 0, frags |-> {}]


(*********************  the main-thread state as a record  *****************)
Main ==
  [sharedWorker |-> sharedWorker, workerReady |-> workerReady,
   initPromise |-> initPromise, initResult |-> initResult,
   nextPromise |-> nextPromise, inits |-> inits,
   waiters |-> waiters, calls |-> calls, listeners |-> listeners,
   toWorker |-> toWorker, initPosted |-> initPosted, hooks |-> hooks,
   items |-> items, isRunning |-> isRunning, abortRef |-> abortRef,
   runs |-> runs]

Commit(S) ==
  /\ sharedWorker' = S.sharedWorker
  /\ workerReady' = S.workerReady
  /\ initPromise' = S.initPromise
  /\ initResult' = S.initResult
  /\ nextPromise' = S.nextPromise
  /\ inits' = S.inits
  /\ waiters' = S.waiters
  /\ calls' = S.calls
  /\ listeners' = S.listeners
  /\ toWorker' = S.toWorker
  /\ initPosted' = S.initPosted
  /\ hooks' = S.hooks
  /\ items' = S.items
  /\ isRunning' = S.isRunning
  /\ abortRef' = S.abortRef
  /\ runs' = S.runs

Listener(kind, id) == [kind |-> kind, id |-> id]

Registered(S, l) == \E i \in 1..Len(S.listeners) : S.listeners[i] = l

removeEventListener(S, l) ==
  [S EXCEPT !.listeners = SelectSeq(S.listeners, LAMBDA x : x # l)]

(****************************  analyzer.ts  ********************************)
\* getWorker: the worker is created on first use and never replaced.
getWorker(S) == [S EXCEPT !.sharedWorker = TRUE]

Settled(state, value) == [state |-> state, value |-> value]

\* the executor of the promise ensureInit creates: listener and request
StartInit(S) ==
  LET W == getWorker(S)
      p == S.nextPromise
  IN [S |-> [W EXCEPT !.nextPromise = p + 1,
                      !.initPromise = p,
                      !.initResult = Settled("pending", NULL),
                      !.listeners = Append(@, Listener("init", p)),
                      !.toWorker = Append(@, Request("init", 0, 0)),
                      !.initPosted = @ + 1],
      p |-> p, state |-> "pending", value |-> NULL]

\* ensureInit without the `if (initPromise) return initPromise` line
ensureInitNoSingleFlight(S) ==
  IF S.workerReady
  THEN [S |-> [S EXCEPT !.nextPromise = @ + 1], p |-> S.nextPromise,
        state |-> "resolved", value |-> "cached"]
  ELSE StartInit(S)

\* ensureInit that starts the worker's init on every call
ensureInitAlwaysStarts(S) == StartInit(S)

\* ensureInit: the promise it returns, as [S, p, state, value].
ensureInit(S) ==
  IF S.workerReady
  THEN [S |-> [S EXCEPT !.nextPromise = @ + 1], p |-> S.nextPromise,
        state |-> "resolved", value |-> "cached"]
  ELSE IF S.initPromise # 0
  THEN [S |-> S, p |-> S.initPromise, state |-> S.initResult.state,
        value |-> S.initResult.value]
  ELSE StartInit(S)

Waiter(pid, kind, id) == [pid |-> pid, kind |-> kind, id |-> id]

\* A call record: what analyze()/analyzeBpmKey() returned and what its
\* listener has done since. History fields: log (the messages that
\* triggered a callback, a resolve or a reject of this call, in order),
\* initAtCall (what init had come to when the call was made), posted and
\* registered (the call posted a request / added a listener).
Call(kind, owner, cont, state, value, sampleRate) ==
  [kind |-> kind, owner |-> owner, cont |-> cont, state |-> state,
   value |-> value, sampleRate |-> sampleRate, log |-> <<>>,
   initAtCall |-> "", posted |-> FALSE, registered |-> FALSE]

\* analyze / analyzeBpmKey without the `if (!workerReady)` guard
analyzeUnguarded(S, kind, owner, cont, sampleRate) ==
  LET c == Len(S.calls) + 1
      W == getWorker(S)
  IN [W EXCEPT !.calls = Append(@, Call(kind, owner, cont, "pending", NULL, sampleRate)),
               !.listeners = Append(@, Listener(kind, c)),
               !.toWorker = Append(@, Request(kind, c, sampleRate))]

\* AudioAnalyzer.analyze / AudioAnalyzer.analyzeBpmKey up to the returned
\* promise: kind is "analyze" or "analyzeBpmKey".
analyze(S, kind, owner, cont, sampleRate) ==
  IF ~S.workerReady
  THEN [S EXCEPT !.calls = Append(@, Call(kind, owner, cont, "rejected",
                                          NotInitialized, sampleRate))]
  ELSE LET c == Len(S.calls) + 1
           W == getWorker(S)
       IN [W EXCEPT !.calls = Append(@, Call(kind, owner, cont, "pending", NULL, sampleRate)),
                    !.listeners = Append(@, Listener(kind, c)),
                    !.toWorker = Append(@, Request(kind, c, sampleRate))]

\* What the init() invocations made so far have come to.
InitProgress(S) ==
  IF \E i \in 1..Len(S.inits) : S.inits[i].state = "resolved" THEN "done"
  ELSE IF \E i \in 1..Len(S.inits) : S.inits[i].state = "pending" THEN "inflight"
  ELSE IF \E i \in 1..Len(S.inits) : S.inits[i].state = "rejected" THEN "failed"
  ELSE "never"

\* A call of analyze / analyzeBpmKey, with its history fields filled in
\* from the states before and after it.
Invoke(S, kind, owner, cont, sampleRate) ==
  LET T == analyze(S, kind, owner, cont, sampleRate)
      c == Len(T.calls)
  IN [T EXCEPT !.calls[c].initAtCall = InitProgress(S),
               !.calls[c].posted = Len(T.toWorker) > Len(S.toWorker),
               !.calls[c].registered = Len(T.listeners) > Len(S.listeners)]

(***************************  useAnalysis  *********************************)
Progress(phase, percent) == [phase |-> phase, percent |-> percent]

FreshHook ==
  [pc |-> "unmounted", isAnalyzing |-> FALSE, isDecoding |-> FALSE,
   error |-> NULL, result |-> NullResult, progress |-> Progress("init", 0),
   drops |-> 0]

\* The fragments a partial message carries.
FragKeys(data) ==
  IF data \in {"loudness+stereo", "loudnessDefault+stereo"} THEN {"loudness", "stereo"}
  ELSE IF data = "quality" THEN {"quality"}
  ELSE {}

\* onProgress / onPartial of the analyzer a useAnalysis instance creates.
HookOnProgress(S, h, m) ==
  [S EXCEPT !.hooks[h].progress = Progress(m.phase, m.percent)]

HookOnPartial(S, h, m) ==
  [S EXCEPT !.hooks[h].result =
     [isNull |-> FALSE, fileInfo |-> @.fileInfo, frags |-> @.frags \cup FragKeys(m.data)]]

\* a catch block that also discards the result
HookCatchRetracts(S, h, msg) ==
  [S EXCEPT !.hooks[h].error = msg,
            !.hooks[h].result = NullResult,
            !.hooks[h].progress = Progress("error", 0),
            !.hooks[h].isAnalyzing = FALSE,
            !.hooks[h].pc = "idle"]

\* catch + finally of useAnalysis.analyze
HookCatch(S, h, msg) ==
  [S EXCEPT !.hooks[h].error = msg,
            !.hooks[h].progress = Progress("error", 0),
            !.hooks[h].isAnalyzing = FALSE,
            !.hooks[h].pc = "idle"]

\* after `await analyzer.analyze(...)` resolved, + finally
HookResolve(S, h) ==
  [S EXCEPT !.hooks[h].progress = Progress("done", 100),
            !.hooks[h].isAnalyzing = FALSE,
            !.hooks[h].pc = "idle"]

\* after `await analyzer.init()` resolved: the analyze call is made
HookAfterInit(S, h) ==
  LET S1 == [S EXCEPT !.hooks[h].progress = Progress("phase1", 5)]
      S2 == Invoke(S1, "analyze", IF h = 1 THEN "A" ELSE "B", HookCont(h), DecoderRate)
      c == Len(S2.calls)
  IN IF S2.calls[c].state = "rejected"
     THEN HookCatch(S2, h, S2.calls[c].value)
     ELSE [S2 EXCEPT !.hooks[h].pc = "awaitAnalyze"]

\* useAnalysis.analyze up to its first suspension
HookAnalyze(S, h) ==
  LET S1 == [S EXCEPT !.hooks[h].isAnalyzing = TRUE,
                      !.hooks[h].error = NULL,
                      !.hooks[h].result = NullResult,
                      !.hooks[h].progress = Progress("init", 0)]
      e == ensureInit(S1)
  IN IF e.state = "resolved"
     THEN HookAfterInit(e.S, h)
     ELSE IF e.state = "rejected"
     THEN HookCatch(e.S, h, e.value)
     ELSE [e.S EXCEPT !.waiters = Append(@, Waiter(e.p, "hook", h)),
                      !.hooks[h].pc = "awaitInit"]

(*************************  useBatchAnalysis  ******************************)
Item(id) ==
  [id |-> id, fileInfo |-> 0, result |-> NullResult, status |-> "pending",
   error |-> NULL]

MapItems(its, id, f(_)) ==
  [i \in 1..Len(its) |-> IF its[i].id = id THEN f(its[i]) ELSE its[i]]

updateItems(S, next) == [S EXCEPT !.items = next]

Min(a, b) == IF a < b THEN a ELSE b

\* Array.prototype.slice(0, end)
slice(s, end) ==
  LET e == IF end < 0 THEN (IF Len(s) + end < 0 THEN 0 ELSE Len(s) + end)
           ELSE Min(end, Len(s))
  IN SubSeq(s, 1, e)

\* addFiles that appends every file handed in
addFilesUnbounded(S, files) ==
  LET newItems == [i \in 1..Len(files) |-> Item(files[i])]
  IN updateItems(S, S.items \o newItems)

\* addFiles: files is the sequence of identities of the files handed in
addFiles(S, files) ==
  LET remaining == MAX_FILES - Len(S.items)
      toAdd == slice(files, remaining)
      newItems == [i \in 1..Len(toAdd) |-> Item(toAdd[i])]
  IN updateItems(S, S.items \o newItems)

\* clear; runs[r].cleared records, for each run that has an item in flight,
\* that clear was called during it.
clear(S) ==
  [updateItems([S EXCEPT !.abortRef = TRUE], <<>>) EXCEPT
     !.isRunning = FALSE,
     !.runs = [r \in 1..Len(S.runs) |->
                 [S.runs[r] EXCEPT !.cleared =
                    @ \/ S.runs[r].pc \in {"decoding", "awaitItemInit", "awaitAnalyze"}]]]

removeItem(S, id) ==
  updateItems(S, SelectSeq(S.items, LAMBDA i : i.id # id))

Run ==
  [pc |-> "start", snapshot |-> <<>>, idx |-> 0, partial |-> {}, begun |-> <<>>,
   cleared |-> FALSE, begunAfterClear |-> FALSE]

Finish(S, r) == [S EXCEPT !.isRunning = FALSE, !.runs[r].pc = "finished"]

\* The for-of loop from the item at runs[r].idx up to the first await:
\* break on the abort flag, skip what the snapshot holds as not pending,
\* else mark the item decoding and start to decode it.
RECURSIVE RunLoop(_, _)
RunLoop(S, r) ==
  LET run == S.runs[r] IN
  IF run.idx > Len(run.snapshot) THEN Finish(S, r)
  ELSE IF S.abortRef THEN Finish(S, r)
  ELSE IF run.snapshot[run.idx].status # "pending"
  THEN RunLoop([S EXCEPT !.runs[r].idx = @ + 1], r)
  ELSE LET id == run.snapshot[run.idx].id
           S1 == updateItems(S, MapItems(S.items, id,
                                  LAMBDA i : [i EXCEPT !.status = "decoding"]))
       IN [S1 EXCEPT !.runs[r].pc = "decoding",
                     !.runs[r].partial = {},
                     !.runs[r].begun = Append(@, id),
                     !.runs[r].begunAfterClear = @ \/ run.cleared]

CurrentId(S, r) == S.runs[r].snapshot[S.runs[r].idx].id

\* a catch block that records the error and leaves the loop
RunCatchAborts(S, r, msg) ==
  LET S1 == updateItems(S, MapItems(S.items, CurrentId(S, r),
                LAMBDA i : [i EXCEPT !.status = "error", !.error = msg]))
  IN Finish(S1, r)

\* the catch block of one iteration, then the next iteration
RunCatch(S, r, msg) ==
  LET S1 == updateItems(S, MapItems(S.items, CurrentId(S, r),
                LAMBDA i : [i EXCEPT !.status = "error", !.error = msg]))
  IN RunLoop([S1 EXCEPT !.runs[r].idx = @ + 1], r)

\* after `await batchAnalyzer.analyze(...)` resolved, then the next iteration
RunResolve(S, r) ==
  LET id == CurrentId(S, r)
      fullResult == [isNull |-> FALSE, fileInfo |-> id, frags |-> S.runs[r].partial]
      S1 == updateItems(S, MapItems(S.items, id,
                LAMBDA i : [i EXCEPT !.result = fullResult, !.status = "done"]))
  IN RunLoop([S1 EXCEPT !.runs[r].idx = @ + 1], r)

\* after `await batchAnalyzer.init()` resolved: the analyze call is made
RunItemAnalyze(S, r) ==
  LET S1 == Invoke(S, "analyze", "batch", RunCont(r), DecoderRate)
      c == Len(S1.calls)
  IN IF S1.calls[c].state = "rejected"
     THEN RunCatch(S1, r, S1.calls[c].value)
     ELSE [S1 EXCEPT !.runs[r].pc = "awaitAnalyze"]

\* the decode of the current item has settled: outcome is "ok", "error"
\* (an Error with the platform's message) or "nonError" (any other value)
RunDecoded(S, r, outcome) ==
  IF outcome = "ok"
  THEN LET id == CurrentId(S, r)
           S1 == updateItems(S, MapItems(S.items, id,
                     LAMBDA i : [i EXCEPT !.fileInfo = id, !.status = "analyzing"]))
           e == ensureInit(S1)
       IN IF e.state = "resolved"
          THEN RunItemAnalyze(e.S, r)
          ELSE IF e.state = "rejected"
          THEN RunCatch(e.S, r, e.value)
          ELSE [e.S EXCEPT !.waiters = Append(@, Waiter(e.p, "runItem", r)),
                           !.runs[r].pc = "awaitItemInit"]
  ELSE RunCatch(S, r, IF outcome = "error" THEN "EncodingError" ELSE DefaultFailure)

\* after `await analyzer.init()` of startAnalysis settled
RunAfterInit(S, r, ok) ==
  IF ~ok THEN Finish(S, r)
  ELSE RunLoop([S EXCEPT !.runs[r].snapshot = S.items, !.runs[r].idx = 1], r)

startAnalysis(S) ==
  LET r == Len(S.runs) + 1
      S1 == [S EXCEPT !.isRunning = TRUE, !.abortRef = FALSE,
                      !.runs = Append(@, Run)]
      e == ensureInit(S1)
  IN IF e.state = "resolved"
     THEN RunAfterInit(e.S, r, TRUE)
     ELSE IF e.state = "rejected"
     THEN RunAfterInit(e.S, r, FALSE)
     ELSE [e.S EXCEPT !.waiters = Append(@, Waiter(e.p, "run", r)),
                      !.runs[r].pc = "awaitInit"]


(**********************  promise continuations  ****************************)
\* The reaction registered by one awaiting party on an init promise.
ContinueWaiter(S, w, ok, value) ==
  IF w.kind = "init"
  THEN [S EXCEPT !.inits[w.id].state = IF ok THEN "resolved" ELSE "rejected",
                 !.inits[w.id].value = value]
  ELSE IF w.kind = "hook"
  THEN (IF ok THEN HookAfterInit(S, w.id) ELSE HookCatch(S, w.id, value))
  ELSE IF w.kind = "run"
  THEN RunAfterInit(S, w.id, ok)
  ELSE (IF ok THEN RunItemAnalyze(S, w.id) ELSE RunCatch(S, w.id, value))

RECURSIVE ContinueWaiters(_, _, _, _)
ContinueWaiters(S, ws, ok, value) ==
  IF ws = <<>> THEN S
  ELSE ContinueWaiters(ContinueWaiter(S, Head(ws), ok, value), Tail(ws), ok, value)

\* resolve / reject of the promise ensureInit created: its reactions run in
\* the order they were registered.
SettleInit(S, pid, ok, value) ==
  LET mine == SelectSeq(S.waiters, LAMBDA w : w.pid = pid)
      rest == SelectSeq(S.waiters, LAMBDA w : w.pid # pid)
  IN ContinueWaiters([S EXCEPT !.waiters = rest], mine, ok, value)

\* resolve / reject of the promise of call c, and the continuation of the
\* function awaiting it.
SettleCall(S, c, ok, value) ==
  LET S1 == [S EXCEPT !.calls[c].state = IF ok THEN "resolved" ELSE "rejected",
                      !.calls[c].value = value]
      k == S.calls[c].cont
  IN IF k.kind = "hook"
     THEN (IF ok THEN HookResolve(S1, k.id) ELSE HookCatch(S1, k.id, value))
     ELSE IF k.kind = "run"
     THEN (IF ok THEN RunResolve(S1, k.id) ELSE RunCatch(S1, k.id, value))
     ELSE S1

Logged(S, c, m) == [S EXCEPT !.calls[c].log = Append(@, m)]

\* this.onProgress / this.onPartial of the analyzer that made call c
onProgress(S, c, m) ==
  IF S.calls[c].cont.kind = "hook" THEN HookOnProgress(S, S.calls[c].cont.id, m) ELSE S

onPartial(S, c, m) ==
  LET k == S.calls[c].cont IN
  IF k.kind = "hook" THEN HookOnPartial(S, k.id, m)
  ELSE IF k.kind = "run"
  THEN [S EXCEPT !.runs[k.id].partial = @ \cup FragKeys(m.data)]
  ELSE S

(*************************  message handlers  ******************************)
\* the handler of ensureInit without `initPromise = null` on 'error'
InitHandlerKeepsPromise(S, pid, m) ==
  IF m.type = "ready"
  THEN LET v == IF m.data = "undefined" THEN "unknown" ELSE m.data
           S1 == [removeEventListener(S, Listener("init", pid)) EXCEPT
                    !.workerReady = TRUE,
                    !.initResult = IF S.initPromise = pid THEN Settled("resolved", v) ELSE @]
       IN SettleInit(S1, pid, TRUE, v)
  ELSE IF m.type = "error"
  THEN LET S1 == [removeEventListener(S, Listener("init", pid)) EXCEPT
                    !.initResult = Settled("rejected", m.data)]
       IN SettleInit(S1, pid, FALSE, m.data)
  ELSE S

\* handler of ensureInit, for the promise pid
InitHandler(S, pid, m) ==
  IF m.type = "ready"
  THEN LET v == IF m.data = "undefined" THEN "unknown" ELSE m.data
           S1 == [removeEventListener(S, Listener("init", pid)) EXCEPT
                    !.workerReady = TRUE,
                    !.initResult = IF S.initPromise = pid THEN Settled("resolved", v) ELSE @]
       IN SettleInit(S1, pid, TRUE, v)
  ELSE IF m.type = "error"
  THEN LET S1 == [removeEventListener(S, Listener("init", pid)) EXCEPT
                    !.initPromise = 0,
                    !.initResult = Settled("rejected", m.data)]
       IN SettleInit(S1, pid, FALSE, m.data)
  ELSE S

\* handler of AudioAnalyzer.analyze, for call c
AnalyzeHandler(S, c, m) ==
  IF m.type = "progress" THEN onProgress(Logged(S, c, m), c, m)
  ELSE IF m.type = "partial" /\ m.data # ""
  THEN onPartial(Logged(S, c, m), c, m)
  ELSE IF m.type = "complete"
  THEN SettleCall(removeEventListener(Logged(S, c, m), Listener("analyze", c)), c, TRUE, "undefined")
  ELSE IF m.type = "error"
  THEN SettleCall(removeEventListener(Logged(S, c, m), Listener("analyze", c)), c, FALSE, m.data)
  ELSE S

\* handler of AudioAnalyzer.analyzeBpmKey, for call c
BpmKeyHandler(S, c, m) ==
  IF m.type = "progress" THEN onProgress(Logged(S, c, m), c, m)
  ELSE IF m.type = "bpmKeyComplete" /\ m.data # ""
  THEN SettleCall(removeEventListener(Logged(S, c, m), Listener("analyzeBpmKey", c)), c, TRUE, m.data)
  ELSE IF m.type = "error"
  THEN SettleCall(removeEventListener(Logged(S, c, m), Listener("analyzeBpmKey", c)), c, FALSE, m.data)
  ELSE S

HandleListener(S, l, m) ==
  IF l.kind = "init" THEN InitHandler(S, l.id, m)
  ELSE IF l.kind = "analyze" THEN AnalyzeHandler(S, l.id, m)
  ELSE BpmKeyHandler(S, l.id, m)

\* Dispatch of one message event: the listeners registered when the
\* dispatch starts are called in registration order, one removed meanwhile
\* is skipped, one added meanwhile is not called.
RECURSIVE Dispatch(_, _, _)
Dispatch(S, ls, m) ==
  IF ls = <<>> THEN S
  ELSE Dispatch(IF Registered(S, Head(ls)) THEN HandleListener(S, Head(ls), m) ELSE S,
                Tail(ls), m)


(**********************  workers/essentia.worker.ts  ***********************)
\* `v ?? d` for a value that is absent (<<>>) or present (<<x>>)
Nullish(v, d) == IF v = <<>> THEN d ELSE v[1]

\* What happens in the analyze branch: "ok" (nothing is thrown),
\* "loudnessFails" (LoudnessEBUR128 threw and was caught), "throws" (an
\* essentia vector operation outside the try threw), "qualityThrows"
\* (runAnalysis returned and an exception escaped runQualityCheck).
AnalyzeOutcomes == {"ok", "loudnessFails", "throws", "qualityThrows"}

NegInfinity == -1000000     \* stands for -Infinity

\* the loudness values of the partial, from what LoudnessEBUR128 returned
LoudnessOf(outcome, ebuResult) ==
  IF outcome = "loudnessFails"
  THEN [integratedLUFS |-> NegInfinity, loudnessRange |-> 0,
        momentaryLoudness |-> <<>>, shortTermLoudness |-> <<>>]
  ELSE [integratedLUFS |-> Nullish(ebuResult.integratedLoudness, NegInfinity),
        loudnessRange |-> Nullish(ebuResult.loudnessRange, 0),
        momentaryLoudness |-> Nullish(ebuResult.momentaryLoudness, <<>>),
        shortTermLoudness |-> Nullish(ebuResult.shortTermLoudness, <<>>)]

RECURSIVE SumSq(_, _, _, _)
\* the sum over i in 1..len of (left[i] + sign * right[i])^2
SumSq(left, right, sign, len) ==
  IF len = 0 THEN 0
  ELSE SumSq(left, right, sign, len - 1)
       + (left[len] + sign * right[len]) * (left[len] + sign * right[len])

\* Stereo width (Mid/Side ratio). mid and side are halves of sums of
\* samples, so 4 * midSumSq and 4 * sideSumSq are computed here, and the
\* width sqrt(sideSumSq / midSumSq) is given by its square as the pair
\* <<numerator, denominator>>; <<0, 1>> is the width 0.
stereoWidth(left, right) ==
  LET len == Min(Len(left), Len(right))
      midSumSq == SumSq(left, right, 1, len)
      sideSumSq == SumSq(left, right, -1, len)
  IN IF len > 0 /\ midSumSq > 0 THEN <<sideSumSq, midSumSq>> ELSE <<0, 1>>

\* the data of the partial runAnalysis posts
AnalysisPartial(outcome, ebuResult, left, right) ==
  [loudness |-> LoudnessOf(outcome, ebuResult),
   stereo |-> [width |-> stereoWidth(left, right)]]

\* runAnalysis that reports 70 percent before 40 percent
runAnalysisProgressSwapped(req, outcome, ess) ==
  IF ~ess \/ outcome = "throws"
  THEN [posted |-> <<postProgress(req, "phase1", 5)>>, threw |-> TRUE]
  ELSE [posted |-> <<postProgress(req, "phase1", 5),
                    postProgress(req, "phase1", 70),
                    postProgress(req, "phase1", 40),
                    postPartial(req, IF outcome = "loudnessFails"
                                     THEN "loudnessDefault+stereo"
                                     ELSE "loudness+stereo")>>,
        threw |-> FALSE]

\* runAnalysis: the messages posted, and whether an exception escaped.
runAnalysis(req, outcome, ess) ==
  IF ~ess \/ outcome = "throws"
  THEN [posted |-> <<postProgress(req, "phase1", 5)>>, threw |-> TRUE]
  ELSE [posted |-> <<postProgress(req, "phase1", 5),
                    postProgress(req, "phase1", 40),
                    postProgress(req, "phase1", 70),
                    postPartial(req, IF outcome = "loudnessFails"
                                     THEN "loudnessDefault+stereo"
                                     ELSE "loudness+stereo")>>,
        threw |-> FALSE]

runQualityCheck(req) == <<postPartial(req, "quality")>>

\* Math.round(n / d) for n >= 0, d > 0
RoundDiv(n, d) == (2 * n + d) \div (2 * d)

\* progress of the frame-by-frame key fallback: one message every 50 frames
RECURSIVE FallbackProgress(_, _, _)
FallbackProgress(req, f, numFrames) ==
  IF f >= numFrames THEN <<>>
  ELSE <<postProgress(req, "phase1", 50 + RoundDiv(f * 30, numFrames))>>
       \o FallbackProgress(req, f + 50, numFrames)

RhythmResult == [bpm |-> <<120>>, confidence |-> <<3>>]
PercivalResult == [bpm |-> <<90>>]
KeyResult == [key |-> <<"C">>, scale |-> <<"major">>, strength |-> <<1>>]
KeyOutResult == [key |-> <<"A">>, scale |-> <<"minor">>, strength |-> <<2>>]

\* One run of the tempo and key cascades: where the estimators throw, what
\* they return, and the number of frames of the key fallback.
\*   vec       arrayToVector(audioData): "ok" | "throws"
\*   rhythm    RhythmExtractor2013: "ok" | "throws" (the call) |
\*             "throwsInCleanup" (a delete() after the results were read)
\*   percival  PercivalBpmEstimator: "ok" | "throws"
\*   keyx      KeyExtractor: "ok" | "throws"
\*   fallback  frame-by-frame HPCP + Key: "ok" | "throwsInFrame" (an
\*             operation on the first frame) | "throwsInKey" (arrayToVector
\*             or Key on the averaged HPCP) | "throwsInCleanup" (the
\*             delete() after the results were read)
BpmKeyCase(vec, rhythm, percival, keyx, fallback, numFrames) ==
  [vec |-> vec, rhythm |-> rhythm, percival |-> percival, keyx |-> keyx,
   fallback |-> fallback, numFrames |-> numFrames,
   rhythmResult |-> RhythmResult, percivalResult |-> PercivalResult,
   keyResult |-> KeyResult, keyOut |-> KeyOutResult]

BpmKeyCases ==
  {BpmKeyCase("ok", "ok", "ok", "ok", "ok", 0),
   BpmKeyCase("throws", "ok", "ok", "ok", "ok", 0),
   BpmKeyCase("ok", "throws", "ok", "throws", "ok", 60)}

\* BPM detection: bpm and bpmConfidence when the block is left
BpmOf(k) ==
  LET read == [bpm |-> Nullish(k.rhythmResult.bpm, 0),
               bpmConfidence |-> Nullish(k.rhythmResult.confidence, 0)]
  IN IF k.rhythm = "ok" THEN read
     ELSE LET caught == IF k.rhythm = "throwsInCleanup" THEN read
                        ELSE [bpm |-> 0, bpmConfidence |-> 0]
          IN IF k.percival = "ok"
             THEN [caught EXCEPT !.bpm = Nullish(k.percivalResult.bpm, 0)]
             ELSE caught

\* Key detection: key, scale and keyStrength when the block is left
KeyOf(k) ==
  LET default == [key |-> "", scale |-> "", keyStrength |-> 0]
      from(r) == [key |-> Nullish(r.key, ""), scale |-> Nullish(r.scale, ""),
                  keyStrength |-> Nullish(r.strength, 0)]
  IN IF k.keyx = "ok" THEN from(k.keyResult)
     ELSE IF k.numFrames <= 0 THEN default
     ELSE IF k.fallback \in {"throwsInFrame", "throwsInKey"} THEN default
     ELSE from(k.keyOut)

\* the progress messages of the key fallback
KeyProgress(req, k) ==
  IF k.keyx = "throws" /\ k.fallback # "throwsInFrame"
  THEN FallbackProgress(req, 0, k.numFrames)
  ELSE <<>>

\* runBpmKeyAnalysis: the messages posted, whether an exception escaped, and
\* the bpmKeyData posted.
runBpmKeyAnalysis(req, k, ess) ==
  IF ~ess \/ k.vec = "throws"
  THEN [posted |-> <<postProgress(req, "phase1", 10)>>, threw |-> TRUE,
        data |-> BpmOf(k) @@ KeyOf(k)]
  ELSE LET data == BpmOf(k) @@ KeyOf(k)
       IN [posted |-> <<postProgress(req, "phase1", 10), postProgress(req, "phase1", 50)>>
                      \o KeyProgress(req, k)
                      \o <<postProgress(req, "phase1", 90),
                           Msg("bpmKeyComplete", req, "", 0, ToString(data))>>,
           threw |-> FALSE, data |-> data]

\* self.onmessage, branch type === 'init'
OnInit(ok, version, inner) ==
  IF ok THEN <<Msg("ready", 0, "", 0, version)>>
  ELSE <<Msg("error", 0, "", 0, InitErrorPrefix \o inner)>>

\* the analyze branch without the try/catch around LoudnessEBUR128
OnAnalyzeLoudnessUncaught(req, outcome, inner, ess) ==
  LET a == runAnalysis(req, outcome, ess) IN
  IF a.threw \/ outcome = "qualityThrows"
  THEN a.posted \o <<Msg("error", req, "", 0, AnalyzeErrorPrefix \o inner)>>
  ELSE IF outcome = "loudnessFails"
  THEN <<postProgress(req, "phase1", 5),
         Msg("error", req, "", 0, AnalyzeErrorPrefix \o inner)>>
  ELSE a.posted \o runQualityCheck(req)
       \o <<postProgress(req, "done", 100), Msg("complete", req, "", 0, "")>>

\* self.onmessage, branch type === 'analyze' && sampleRate
OnAnalyze(req, outcome, inner, ess) ==
  LET a == runAnalysis(req, outcome, ess) IN
  IF a.threw \/ outcome = "qualityThrows"
  THEN a.posted \o <<Msg("error", req, "", 0, AnalyzeErrorPrefix \o inner)>>
  ELSE a.posted \o runQualityCheck(req)
       \o <<postProgress(req, "done", 100), Msg("complete", req, "", 0, "")>>

\* self.onmessage, branch type === 'analyzeBpmKey' && audioData && sampleRate
OnAnalyzeBpmKey(req, k, inner, ess) ==
  LET a == runBpmKeyAnalysis(req, k, ess) IN
  IF a.threw
  THEN a.posted \o <<Msg("error", req, "", 0, BpmKeyErrorPrefix \o inner)>>
  ELSE a.posted \o <<postProgress(req, "done", 100), Msg("complete", req, "", 0, "")>>

(******************************  actions  **********************************)
BatchVars == <<items, isRunning, abortRef, runs, nextFile, removedWhileRunning, threw>>
WorkerVars == <<essentia, initFailures, reported>>
FnVars == <<input, output>>
NoInput == [fn |-> "none"]

\* the state of the program when its modules have been loaded
Loaded ==
  /\ sharedWorker = FALSE
  /\ workerReady = FALSE
  /\ initPromise = 0
  /\ initResult = Settled("pending", NULL)
  /\ nextPromise = 1
  /\ inits = <<>>
  /\ waiters = <<>>
  /\ calls = <<>>
  /\ listeners = <<>>
  /\ toWorker = <<>>
  /\ toMain = <<>>
  /\ essentia = FALSE
  /\ initFailures = 0
  /\ reported = {}
  /\ initPosted = 0
  /\ hooks = [h \in HookIds |-> FreshHook]
  /\ items = <<>>
  /\ isRunning = FALSE
  /\ abortRef = FALSE
  /\ runs = <<>>
  /\ nextFile = 0
  /\ removedWhileRunning = FALSE
  /\ threw = {}

ProgramVars ==
  <<sharedWorker, workerReady, initPromise, initResult, nextPromise, inits,
    waiters, calls, listeners, toWorker, toMain, WorkerVars, initPosted, hooks,
    BatchVars>>

Init == Loaded /\ input = NoInput /\ output = <<>>

MainOnly == UNCHANGED <<toMain, WorkerVars, nextFile, removedWhileRunning, threw, FnVars>>

\* AudioAnalyzer.init() called through the API on instance inst
CallInit(inst) ==
  /\ Len(inits) < MaxInits
  /\ LET e == ensureInit(Main)
         i == Len(inits) + 1
         rec == [owner |-> inst, promise |-> e.p, state |-> e.state, value |-> e.value,
                 posted |-> Len(e.S.toWorker) - Len(toWorker),
                 initAtCall |-> InitProgress(Main),
                 joined |-> {j \in 1..Len(inits) : inits[j].state = "pending"}]
         S1 == [e.S EXCEPT !.inits = Append(@, rec)]
     IN Commit(IF e.state = "pending"
               THEN [S1 EXCEPT !.waiters = Append(@, Waiter(e.p, "init", i))]
               ELSE S1)
  /\ MainOnly

\* AudioAnalyzer.analyze() called through the API
CallAnalyze(sampleRate) ==
  /\ Len(calls) < MaxCalls
  /\ Commit(Invoke(Main, "analyze", "api", NoCont, sampleRate))
  /\ MainOnly

\* AudioAnalyzer.analyzeBpmKey() called through the API
CallAnalyzeBpmKey(sampleRate) ==
  /\ Len(calls) < MaxCalls
  /\ Commit(Invoke(Main, "analyzeBpmKey", "api", NoCont, sampleRate))
  /\ MainOnly

WorkerTakes(type) ==
  /\ toWorker # <<>>
  /\ Head(toWorker).type = type
  /\ toWorker' = Tail(toWorker)

MainUnchangedButQueue ==
  UNCHANGED <<sharedWorker, workerReady, initPromise, initResult, nextPromise, inits,
              waiters, calls, listeners, initPosted, hooks, BatchVars, FnVars>>

\* the worker handles an 'init' request
WorkerInit ==
  /\ WorkerTakes("init")
  /\ \E ok \in BOOLEAN, version \in Versions, inner \in InnerMessages :
       /\ ~ok => initFailures < MaxInitFailures
       /\ ok => inner = ""
       /\ ~ok => version = "undefined"
       /\ toMain' = toMain \o OnInit(ok, version, inner)
       /\ essentia' = (essentia \/ ok)
       /\ initFailures' = IF ok THEN initFailures ELSE initFailures + 1
       /\ reported' = IF ok THEN reported \cup {version} ELSE reported
  /\ MainUnchangedButQueue

\* the worker handles an 'analyze' request with a truthy sampleRate
WorkerAnalyzes(outcomes) ==
  /\ WorkerTakes("analyze")
  /\ Head(toWorker).sampleRate # 0
  /\ \E outcome \in outcomes, inner \in InnerMessages :
       /\ outcome \notin {"throws", "qualityThrows"} => inner = ""
       /\ toMain' = toMain \o OnAnalyze(Head(toWorker).req, outcome, inner, essentia)
  /\ UNCHANGED WorkerVars
  /\ MainUnchangedButQueue

WorkerAnalyze == WorkerAnalyzes(AnalyzeOutcomes)

\* the worker handles an 'analyzeBpmKey' request with a truthy sampleRate
WorkerAnalyzeBpmKey ==
  /\ WorkerTakes("analyzeBpmKey")
  /\ Head(toWorker).sampleRate # 0
  /\ \E k \in BpmKeyCases, inner \in InnerMessages :
       /\ k.vec # "throws" => inner = ""
       /\ toMain' = toMain \o OnAnalyzeBpmKey(Head(toWorker).req, k, inner, essentia)
  /\ UNCHANGED WorkerVars
  /\ MainUnchangedButQueue

\* the worker receives a request that matches no branch of onmessage
WorkerNoBranch ==
  /\ toWorker # <<>>
  /\ Head(toWorker).type # "init"
  /\ Head(toWorker).sampleRate = 0
  /\ toWorker' = Tail(toWorker)
  /\ UNCHANGED <<toMain, WorkerVars>>
  /\ MainUnchangedButQueue

\* the items whose analyze call, pending in S, is rejected in T
Rejected(S, T) ==
  {CurrentId(S, S.calls[c].cont.id) :
     c \in {d \in 1..Len(S.calls) : /\ S.calls[d].cont.kind = "run"
                                    /\ S.calls[d].state = "pending"
                                    /\ T.calls[d].state = "rejected"}}

\* the main thread dispatches the next message event of the worker
Deliver ==
  /\ toMain # <<>>
  /\ LET T == Dispatch(Main, listeners, Head(toMain))
     IN Commit(T) /\ threw' = threw \cup Rejected(Main, T)
  /\ toMain' = Tail(toMain)
  /\ UNCHANGED <<WorkerVars, nextFile, removedWhileRunning, FnVars>>

Next ==
  \/ \E inst \in Instances : CallInit(inst)
  \/ \E sr \in SampleRates : CallAnalyze(sr)
  \/ \E sr \in SampleRates : CallAnalyzeBpmKey(sr)
  \/ WorkerInit
  \/ WorkerAnalyze
  \/ WorkerAnalyzeBpmKey
  \/ WorkerNoBranch
  \/ Deliver

Spec == Init /\ [][Next]_vars

\* Both event loops run: a request in the worker's queue is handled and a
\* message event in the main thread's queue is dispatched.
Fairness ==
  /\ WF_vars(WorkerInit)
  /\ WF_vars(WorkerAnalyze)
  /\ WF_vars(WorkerAnalyzeBpmKey)
  /\ WF_vars(WorkerNoBranch)
  /\ WF_vars(Deliver)

SpecLive == Spec /\ Fairness


(***********************  ReferenceView (tracks A, B)  *********************)
\* ReferenceView mounts: the effect of each useAnalysis instance calls
\* getAnalyzer().init() and drops the promise.
MountReferenceView ==
  /\ \A h \in HookIds : hooks[h].pc = "unmounted"
  /\ LET e1 == ensureInit(Main)
         e2 == ensureInit(e1.S)
     IN Commit([e2.S EXCEPT !.hooks = [h \in HookIds |-> [FreshHook EXCEPT !.pc = "idle"]]])
  /\ MainOnly

\* A file is dropped on the DropZone of track h, which is disabled while the
\* track decodes or analyzes: handleFileA / handleFileB up to the decode.
DropFile(h) ==
  /\ hooks[h].pc # "unmounted"
  /\ ~(hooks[h].isDecoding \/ hooks[h].isAnalyzing)
  /\ hooks[h].drops < MaxDrops
  /\ hooks' = [hooks EXCEPT ![h].isDecoding = TRUE, ![h].pc = "decoding",
                            ![h].drops = @ + 1]
  /\ UNCHANGED <<sharedWorker, workerReady, initPromise, initResult, nextPromise,
                 inits, waiters, calls, listeners, toWorker, toMain, WorkerVars,
                 initPosted, BatchVars, FnVars>>

\* decode and getOriginalSampleRate of track h have settled: on success
\* handleFile calls analysis.analyze(mono, buf.sampleRate, left, right).
HookDecoded(h) ==
  /\ hooks[h].pc = "decoding"
  /\ \E ok \in BOOLEAN :
       LET S1 == [Main EXCEPT !.hooks[h].isDecoding = FALSE, !.hooks[h].pc = "idle"]
       IN Commit(IF ok THEN HookAnalyze(S1, h) ELSE S1)
  /\ MainOnly

NextApp ==
  \/ MountReferenceView
  \/ \E h \in HookIds : DropFile(h)
  \/ \E h \in HookIds : HookDecoded(h)
  \/ WorkerInit
  \/ WorkerAnalyze
  \/ Deliver

SpecApp == Init /\ [][NextApp]_vars

(*************************  DetailView (one track)  ************************)
\* DetailView mounts: the effect of its useAnalysis instance calls
\* getAnalyzer().init() and drops the promise.
MountDetailView ==
  /\ \A h \in HookIds : hooks[h].pc = "unmounted"
  /\ Commit([ensureInit(Main).S EXCEPT !.hooks[1] = [FreshHook EXCEPT !.pc = "idle"]])
  /\ MainOnly

\* handleFile of DetailView; its DropZone is disabled while the view decodes
\* or analyzes.
NextDetail ==
  \/ MountDetailView
  \/ DropFile(1)
  \/ HookDecoded(1)
  \/ WorkerInit
  \/ WorkerAnalyze
  \/ Deliver

SpecDetail == Init /\ [][NextDetail]_vars

(*****************************  the batch hook  ****************************)
\* A batch run drops the progress reports and keeps the fragments of an item
\* only when its analyze call resolved, so what the worker does to a batch
\* item is one of two things: the request completes or it fails.
BatchOutcomes == {"ok", "throws"}

BatchWorkerAnalyze == WorkerAnalyzes(BatchOutcomes)

RunInProgress == \E r \in 1..Len(runs) : runs[r].pc # "finished"

BatchOnly == UNCHANGED <<toMain, WorkerVars, FnVars>>

AddFiles(n) ==
  /\ nextFile + n <= MaxAdded
  /\ Commit(addFiles(Main, [i \in 1..n |-> nextFile + i]))
  /\ nextFile' = nextFile + n
  /\ UNCHANGED <<removedWhileRunning, threw>>
  /\ BatchOnly

StartAnalysis ==
  /\ Len(runs) < MaxRuns
  /\ Commit(startAnalysis(Main))
  /\ UNCHANGED <<nextFile, removedWhileRunning, threw>>
  /\ BatchOnly

Clear ==
  /\ Commit(clear(Main))
  /\ UNCHANGED <<nextFile, removedWhileRunning, threw>>
  /\ BatchOnly

RemoveItem(i) ==
  /\ i \in 1..Len(items)
  /\ Commit(removeItem(Main, items[i].id))
  /\ removedWhileRunning' = (removedWhileRunning \/ RunInProgress)
  /\ UNCHANGED <<nextFile, threw>>
  /\ BatchOnly

\* the decode of the item run r is processing settles
RunDecodeDone(r) ==
  /\ r \in 1..Len(runs)
  /\ runs[r].pc = "decoding"
  /\ \E outcome \in {"ok", "error", "nonError"} :
       LET T == RunDecoded(Main, r, outcome)
           failed == \/ outcome # "ok"
                     \/ /\ Len(T.calls) > Len(calls)
                        /\ T.calls[Len(T.calls)].state = "rejected"
       IN /\ Commit(T)
          /\ threw' = IF failed THEN threw \cup {CurrentId(Main, r)} ELSE threw
  /\ UNCHANGED <<nextFile, removedWhileRunning>>
  /\ BatchOnly

\* the hook driven through its returned functions, in any order
NextBatch ==
  \/ \E n \in 1..MaxAdded : AddFiles(n)
  \/ StartAnalysis
  \/ Clear
  \/ \E i \in 1..MaxAdded : RemoveItem(i)
  \/ \E r \in 1..MaxRuns : RunDecodeDone(r)
  \/ WorkerInit
  \/ BatchWorkerAnalyze
  \/ Deliver

SpecBatch == Init /\ [][NextBatch]_vars

\* the hook driven through the controls of BatchView
hasPending == \E i \in 1..Len(items) : items[i].status = "pending"

BatchViewAdd(n) == ~isRunning /\ AddFiles(n)

BatchViewStart == Len(items) > 0 /\ hasPending /\ ~isRunning /\ StartAnalysis

\* a clear button that stays enabled while isRunning
BatchViewClearAlways == Len(items) > 0 /\ Clear

BatchViewClear == Len(items) > 0 /\ ~isRunning /\ Clear

\* a remove button shown whatever isRunning is
BatchViewRemoveAlways(i) == RemoveItem(i)

BatchViewRemove(i) == ~isRunning /\ RemoveItem(i)

NextBatchView ==
  \/ \E n \in 1..MaxAdded : BatchViewAdd(n)
  \/ BatchViewStart
  \/ BatchViewClear
  \/ \E i \in 1..MaxAdded : BatchViewRemove(i)
  \/ \E r \in 1..MaxRuns : RunDecodeDone(r)
  \/ WorkerInit
  \/ WorkerAnalyze
  \/ Deliver

SpecBatchView == Init /\ [][NextBatchView]_vars


(**********************  the batch queue at capacity  **********************)
\* the numbers of files handed to addFiles at once: none, one, as many as
\* the queue can hold and one more
OfferSizes == {0, 1, MAX_FILES, MAX_FILES + 1}

\* addFiles with n files
OfferFiles(n) ==
  /\ nextFile + n <= MaxOffered
  /\ Commit(addFiles(Main, [i \in 1..n |-> nextFile + i]))
  /\ nextFile' = nextFile + n
  /\ UNCHANGED <<removedWhileRunning, threw>>
  /\ BatchOnly

\* removeItem of the first or of the last item of a full queue
RemoveFromFull(i) ==
  /\ Len(items) = MAX_FILES
  /\ i \in {1, MAX_FILES}
  /\ RemoveItem(i)

\* startAnalysis on a full queue, no run being in progress
QueueStart == Len(items) = MAX_FILES /\ ~isRunning /\ StartAnalysis

\* the decode of one of the first items a run begins settles
QueueDecodeDone(r) ==
  /\ r \in 1..Len(runs)
  /\ Len(runs[r].begun) <= MaxProcessed
  /\ RunDecodeDone(r)

NextQueue ==
  \/ \E n \in OfferSizes : OfferFiles(n)
  \/ \E i \in 1..MAX_FILES : RemoveFromFull(i)
  \/ QueueStart
  \/ \E r \in 1..MaxRuns : QueueDecodeDone(r)
  \/ WorkerInit
  \/ BatchWorkerAnalyze
  \/ Deliver

SpecQueue == Init /\ [][NextQueue]_vars

(******************  the tempo and key cascades alone  *********************)
AllBpmKeyCases ==
  [vec : {"ok", "throws"},
   rhythm : {"ok", "throws", "throwsInCleanup"},
   percival : {"ok", "throws"},
   keyx : {"ok", "throws"},
   fallback : {"ok", "throwsInFrame", "throwsInKey", "throwsInCleanup"},
   numFrames : {-1, 0, 1, 60},
   rhythmResult : {RhythmResult, [bpm |-> <<>>, confidence |-> <<>>]},
   percivalResult : {PercivalResult, [bpm |-> <<>>]},
   keyResult : {KeyResult, [key |-> <<>>, scale |-> <<>>, strength |-> <<>>]},
   keyOut : {KeyOutResult, [key |-> <<>>, scale |-> <<>>, strength |-> <<>>]}]

InitBpmKey ==
  /\ Loaded
  /\ input \in [fn : {"analyzeBpmKey"}, k : AllBpmKeyCases, inner : InnerMessages]
  /\ input.k.vec = "ok" => input.inner = ""
  /\ output = <<>>

\* the worker, initialized, handles one 'analyzeBpmKey' request
HandleAnalyzeBpmKey ==
  /\ input.fn = "analyzeBpmKey"
  /\ output = <<>>
  /\ output' = <<[messages |-> OnAnalyzeBpmKey(1, input.k, input.inner, TRUE),
                  data |-> runBpmKeyAnalysis(1, input.k, TRUE).data]>>
  /\ UNCHANGED <<ProgramVars, input>>

NextBpmKey == HandleAnalyzeBpmKey

SpecBpmKey == InitBpmKey /\ [][NextBpmKey]_vars

(**********************  the analyze branch alone  *************************)
Samples == {-1, 0, 1}

Channels == UNION {[1..n -> Samples] : n \in 0..MaxSamples}

EbuResults ==
  [integratedLoudness : {<<>>, <<-14>>},
   loudnessRange : {<<>>, <<7>>},
   momentaryLoudness : {<<>>, << <<-20, -15>> >>},
   shortTermLoudness : {<<>>, << <<-18>> >>}]

InitAnalyze ==
  /\ Loaded
  /\ input \in [fn : {"analyze"}, outcome : AnalyzeOutcomes, inner : InnerMessages,
                 ebuResult : EbuResults, left : Channels, right : Channels]
  /\ input.outcome \notin {"throws", "qualityThrows"} => input.inner = ""
  /\ output = <<>>

\* the worker, initialized, handles one 'analyze' request
HandleAnalyze ==
  /\ input.fn = "analyze"
  /\ output = <<>>
  /\ output' = <<[messages |-> OnAnalyze(1, input.outcome, input.inner, TRUE),
                  partial |-> IF input.outcome = "throws" THEN <<>>
                              ELSE <<AnalysisPartial(input.outcome, input.ebuResult,
                                                     input.left, input.right)>>]>>
  /\ UNCHANGED <<ProgramVars, input>>

NextAnalyze == HandleAnalyze

SpecAnalyze == InitAnalyze /\ [][NextAnalyze]_vars

(**********************  the signal measures alone  ************************)
\* Samples are whole multiples of 1/2048: 2048 is full scale, 1 is a sample
\* below the silence threshold that is not zero.
SignalSamples == {-2048, 0, 1}

SignalChannels == UNION {[1..n -> SignalSamples] : n \in 0..MaxSignalSamples}

SignalRates == {44100, 48000}

Abs(x) == IF x < 0 THEN -x ELSE x

SetMax(S) == CHOOSE m \in S : \A x \in S : x <= m

\* 128 times the value of the cubic through y0..y3 at t = k/4 between y1 and
\* y2: ((a t + b) t + c) t + d with a, b, c whole multiples of 1/2
Hermite128(y0, y1, y2, y3, k) ==
  LET a2 == -y0 + 3 * y1 - 3 * y2 + y3
      b2 == 2 * y0 - 5 * y1 + 4 * y2 - y3
      c2 == -y0 + y2
  IN a2 * k * k * k + b2 * 4 * k * k + c2 * 16 * k + 128 * y1

\* the interpolated points of one channel that computeTruePeak looks at
Interpolated(samples, maxSample) ==
  {Abs(Hermite128(samples[i - 1], samples[i], samples[i + 1], samples[i + 2], k)) :
     i \in {j \in 2..(Len(samples) - 2) :
              ~(/\ 1000 * Abs(samples[j]) < 707 * maxSample
                /\ 1000 * Abs(samples[j + 1]) < 707 * maxSample)},
     k \in {1, 2, 3}}

\* computeTruePeak whose maxAbs starts at 0 and not at the sample peak
computeTruePeakFromZero(left, right) ==
  LET maxSample == SetMax({0} \cup {Abs(left[i]) : i \in 1..Len(left)}
                              \cup {Abs(right[i]) : i \in 1..Len(right)})
  IN IF maxSample = 0
     THEN [negInfinity |-> TRUE, maxAbs |-> 0, maxSample |-> 0]
     ELSE [negInfinity |-> FALSE,
           maxAbs |-> SetMax({0} \cup Interpolated(left, maxSample)
                                 \cup Interpolated(right, maxSample)),
           maxSample |-> 128 * maxSample]

\* computeTruePeak up to the logarithm: -Infinity, or 128 times the maxAbs
\* whose 20 * log10 is returned, with 128 times the sample peak beside it
computeTruePeak(left, right) ==
  LET maxSample == SetMax({0} \cup {Abs(left[i]) : i \in 1..Len(left)}
                              \cup {Abs(right[i]) : i \in 1..Len(right)})
  IN IF maxSample = 0
     THEN [negInfinity |-> TRUE, maxAbs |-> 0, maxSample |-> 0]
     ELSE [negInfinity |-> FALSE,
           maxAbs |-> SetMax({128 * maxSample} \cup Interpolated(left, maxSample)
                                                \cup Interpolated(right, maxSample)),
           maxSample |-> 128 * maxSample]

\* Math.abs(x) > THRESHOLD for x = s / 2048 and THRESHOLD = 0.001
AboveThreshold(s) == 1000 * Abs(s) > 2048

RECURSIVE HeadSilence(_, _)
\* the samples from position i on up to the first one above the threshold
HeadSilence(audioData, i) ==
  IF i > Len(audioData) \/ AboveThreshold(audioData[i]) THEN 0
  ELSE 1 + HeadSilence(audioData, i + 1)

RECURSIVE TailSilence(_, _)
\* the samples from position i down to the first one above the threshold
TailSilence(audioData, i) ==
  IF i < 1 \/ AboveThreshold(audioData[i]) THEN 0
  ELSE 1 + TailSilence(audioData, i - 1)

\* runQualityCheck whose tail loop starts one sample before the last
QualityOfTailShort(audioData, sampleRate) ==
  LET startAmplitude == IF Len(audioData) = 0 THEN 0 ELSE Abs(audioData[1])
      endAmplitude == IF Len(audioData) = 0 THEN 0 ELSE Abs(audioData[Len(audioData)])
  IN [startAmplitude |-> startAmplitude,
      endAmplitude |-> endAmplitude,
      startIsZero |-> 1000 * startAmplitude < 2048,
      endIsZero |-> 1000 * endAmplitude < 2048,
      headSilence |-> <<HeadSilence(audioData, 1), sampleRate>>,
      tailSilence |-> <<TailSilence(audioData, Len(audioData) - 1), sampleRate>>]

\* the quality fragment of runQualityCheck; a duration is the pair
\* <<samples, sampleRate>> of its quotient
QualityOf(audioData, sampleRate) ==
  LET startAmplitude == IF Len(audioData) = 0 THEN 0 ELSE Abs(audioData[1])
      endAmplitude == IF Len(audioData) = 0 THEN 0 ELSE Abs(audioData[Len(audioData)])
  IN [startAmplitude |-> startAmplitude,
      endAmplitude |-> endAmplitude,
      startIsZero |-> 1000 * startAmplitude < 2048,
      endIsZero |-> 1000 * endAmplitude < 2048,
      headSilence |-> <<HeadSilence(audioData, 1), sampleRate>>,
      tailSilence |-> <<TailSilence(audioData, Len(audioData)), sampleRate>>]

InitSignal ==
  /\ Loaded
  /\ input \in [fn : {"signal"}, left : SignalChannels, right : SignalChannels,
                 sampleRate : SignalRates]
  /\ output = <<>>

\* what runAnalysis and runQualityCheck measure on the channels of one
\* 'analyze' request
MeasureSignal ==
  /\ input.fn = "signal"
  /\ output = <<>>
  /\ output' = <<[truePeak |-> computeTruePeak(input.left, input.right),
                  width |-> stereoWidth(input.left, input.right),
                  quality |-> QualityOf(input.left, input.sampleRate)]>>
  /\ UNCHANGED <<ProgramVars, input>>

NextSignal == MeasureSignal

SpecSignal == InitSignal /\ [][NextSignal]_vars

(********************  getOriginalSampleRate (part_002)  *******************)
\* A file is the sequence of its bytes; offsets are counted from 0 as in the
\* source. Numbers stay below 2^31, which bounds the chunk sizes that are
\* tried; the source computes in doubles and has no such limit.
Undefined == -1

\* u8[i]: undefined outside the buffer
U8(u8, i) == IF i >= 0 /\ i < Len(u8) THEN u8[i + 1] ELSE Undefined

\* the n bytes from offset off lie inside the buffer
Inside(u8, off, n) == off >= 0 /\ off + n <= Len(u8)

\* dv.getUint32(off, true): a RangeError outside the buffer
getUint32(u8, off) ==
  IF Inside(u8, off, 4)
  THEN u8[off + 1] + 256 * u8[off + 2] + 65536 * u8[off + 3] + 16777216 * u8[off + 4]
  ELSE Undefined

RIFF == <<82, 73, 70, 70>>
WAVE == <<87, 65, 86, 69>>
FMT == <<102, 109, 116, 32>>
FLAC == <<102, 76, 97, 67>>
ID3 == <<73, 68, 51>>
VORBIS == <<1, 118, 111, 114, 98, 105, 115>>

\* the bytes u8[off], ..., u8[off + n - 1]
Bytes(u8, off, n) == [k \in 1..n |-> U8(u8, off + k - 1)]

NotFound == [kind |-> "none", rate |-> 0, inside |-> TRUE, advances |-> TRUE]

Found(rate, inside) ==
  [kind |-> IF rate = Undefined THEN "throws" ELSE "rate",
   rate |-> rate, inside |-> inside, advances |-> TRUE]

RECURSIVE WavWalk(_, _)
\* the chunk walk from pos: the rate of the first 'fmt ' chunk that leaves
\* room for it, whether every read was inside the buffer and whether pos grew
\* in every round
WavWalk(u8, pos) ==
  IF ~(pos + 8 < Len(u8)) THEN NotFound
  ELSE LET id == Bytes(u8, pos, 4)
           size == getUint32(u8, pos + 4)
           read == Inside(u8, pos, 8)
       IN IF size = Undefined
          THEN [kind |-> "throws", rate |-> 0, inside |-> FALSE, advances |-> TRUE]
          ELSE IF id = FMT /\ pos + 12 + 4 <= Len(u8)
          THEN Found(getUint32(u8, pos + 12), read /\ Inside(u8, pos + 12, 4))
          ELSE LET next == pos + 8 + size + (IF size % 2 # 0 THEN 1 ELSE 0)
                   rest == WavWalk(u8, next)
               IN [rest EXCEPT !.inside = @ /\ read,
                               !.advances = @ /\ next > pos]

\* step 1: WAV
SniffWav(u8) ==
  IF Len(u8) > 44 /\ Bytes(u8, 0, 4) = RIFF /\ Bytes(u8, 8, 4) = WAVE
  THEN WavWalk(u8, 12)
  ELSE NotFound

\* step 2: FLAC, (u8[18] << 12) | (u8[19] << 4) | (u8[20] >> 4)
SniffFlac(u8) ==
  IF Len(u8) > 21 /\ Bytes(u8, 0, 4) = FLAC
  THEN Found(U8(u8, 18) * 4096 + U8(u8, 19) * 16 + (U8(u8, 20) \div 16),
             Inside(u8, 18, 3))
  ELSE NotFound

\* the offset after an ID3v2 tag, 0 without one
Mp3Off(u8) ==
  IF Len(u8) > 10 /\ Bytes(u8, 0, 3) = ID3
  THEN 10 + (U8(u8, 6) % 128) * 2097152 + (U8(u8, 7) % 128) * 16384
          + (U8(u8, 8) % 128) * 128 + (U8(u8, 9) % 128)
  ELSE 0

Mp3Table ==
  [ver \in {0, 2, 3} |->
     IF ver = 3 THEN <<44100, 48000, 32000>>
     ELSE IF ver = 2 THEN <<22050, 24000, 16000>>
     ELSE <<11025, 12000, 8000>>]

\* u8[i] === 0xFF && (u8[i + 1] & 0xE0) === 0xE0
FrameSync(u8, i) == U8(u8, i) = 255 /\ U8(u8, i + 1) >= 224

Mp3Ver(u8, i) == (U8(u8, i + 1) \div 8) % 4
Mp3Layer(u8, i) == (U8(u8, i + 1) \div 2) % 4
Mp3SrIdx(u8, i) == (U8(u8, i + 2) \div 4) % 4

\* layer > 0 && srIdx < 3 && ver !== 1
Mp3Valid(u8, i) == Mp3Layer(u8, i) > 0 /\ Mp3SrIdx(u8, i) < 3 /\ Mp3Ver(u8, i) # 1

\* an end of the MP3 scan that leaves no room for the frame header
Mp3EndAtLength(u8) == Min(Len(u8), Mp3Off(u8) + 4096)

Mp3End(u8) == Min(Len(u8) - 4, Mp3Off(u8) + 4096)

\* the reads of one round of the MP3 loop lie inside the buffer
Mp3ReadsInside(u8, i) ==
  /\ Inside(u8, i, 1)
  /\ U8(u8, i) = 255 => Inside(u8, i + 1, 1)
  /\ FrameSync(u8, i) => Inside(u8, i + 2, 1)

\* an MP3 step that gives up at the first frame sync whose header is reserved
SniffMp3StopsAtReserved(u8) ==
  LET scanned == Mp3Off(u8)..(Mp3End(u8) - 1)
      hits == {i \in scanned : FrameSync(u8, i)}
      first == CHOOSE i \in hits : \A j \in hits : i <= j
  IN IF hits = {} \/ ~Mp3Valid(u8, first)
     THEN [NotFound EXCEPT !.inside = \A i \in scanned : Mp3ReadsInside(u8, i)]
     ELSE Found(Mp3Table[Mp3Ver(u8, first)][Mp3SrIdx(u8, first) + 1],
                \A i \in Mp3Off(u8)..first : Mp3ReadsInside(u8, i))

\* step 3: MP3, the loop over i from mp3Off below mp3End returns at the
\* first i that is a frame sync with a valid header
SniffMp3(u8) ==
  LET scanned == Mp3Off(u8)..(Mp3End(u8) - 1)
      hits == {i \in scanned : FrameSync(u8, i) /\ Mp3Valid(u8, i)}
      first == CHOOSE i \in hits : \A j \in hits : i <= j
  IN IF hits = {}
     THEN [NotFound EXCEPT !.inside = \A i \in scanned : Mp3ReadsInside(u8, i)]
     ELSE Found(Mp3Table[Mp3Ver(u8, first)][Mp3SrIdx(u8, first) + 1],
                \A i \in Mp3Off(u8)..first : Mp3ReadsInside(u8, i))

OggEnd(u8) == Min(Len(u8) - 16, 8192)

\* the reads of one round of the OGG loop lie inside the buffer: the bytes
\* are compared in turn up to the first one that differs
OggReadsInside(u8, i) ==
  \A k \in 0..6 : Bytes(u8, i, k) = SubSeq(VORBIS, 1, k) => Inside(u8, i + k, 1)

\* step 4: OGG Vorbis, the first "\x01vorbis" below oggEnd
SniffOgg(u8) ==
  LET scanned == 0..(OggEnd(u8) - 1)
      hits == {i \in scanned : Bytes(u8, i, 7) = VORBIS}
      first == CHOOSE i \in hits : \A j \in hits : i <= j
  IN IF hits = {}
     THEN [NotFound EXCEPT !.inside = \A i \in scanned : OggReadsInside(u8, i)]
     ELSE Found(getUint32(u8, first + 12),
                /\ \A i \in 0..first : OggReadsInside(u8, i)
                /\ Inside(u8, first + 12, 4))

\* steps 1 to 4 in turn; "none" is the fall through to the decoder
SniffHeader(u8) ==
  LET wav == SniffWav(u8)
      flac == SniffFlac(u8)
      mp3 == SniffMp3(u8)
      ogg == SniffOgg(u8)
      through(a, b) == [b EXCEPT !.inside = @ /\ a.inside, !.advances = @ /\ a.advances]
  IN IF wav.kind # "none" THEN wav
     ELSE IF flac.kind # "none" THEN through(wav, flac)
     ELSE IF mp3.kind # "none" THEN through(wav, through(flac, mp3))
     ELSE through(wav, through(flac, through(mp3, ogg)))

(*************************  audio file headers  ****************************)
\* The files handed to getOriginalSampleRate, written out byte by byte as
\* the container formats lay them down.
LE32(n) == <<n % 256, (n \div 256) % 256, (n \div 65536) % 256, (n \div 16777216) % 256>>

Fill(n, b) == [i \in 1..n |-> b]

RECURSIVE Concat(_)
Concat(parts) == IF parts = <<>> THEN <<>> ELSE Head(parts) \o Concat(Tail(parts))

LIST == <<76, 73, 83, 84>>
DATA == <<100, 97, 116, 97>>

\* a RIFF chunk: id, size, data and the pad byte after data of odd size
Chunk(id, data) ==
  id \o LE32(Len(data)) \o data \o (IF Len(data) % 2 # 0 THEN <<0>> ELSE <<>>)

\* the data of a 'fmt ' chunk: PCM, 2 channels, 16 bits
FmtData(rate) == <<1, 0, 2, 0>> \o LE32(rate) \o LE32(4 * rate) \o <<4, 0, 16, 0>>

\* a WAV file: chunks of the sizes pre before 'fmt ', then a 'data' chunk of
\* the given size
WavFile(pre, rate, data) ==
  LET body == WAVE \o Concat([k \in 1..Len(pre) |-> Chunk(LIST, Fill(pre[k], 0))])
                   \o Chunk(FMT, FmtData(rate))
                   \o Chunk(DATA, Fill(data, 0))
  IN RIFF \o LE32(Len(body)) \o body

\* a FLAC file of the marker and the STREAMINFO block: 2 channels, 16 bits
FlacFile(rate) ==
  FLAC \o <<128, 0, 0, 34>> \o <<16, 0, 16, 0>> \o Fill(6, 0)
       \o <<rate \div 4096, (rate \div 16) % 256, (rate % 16) * 16 + 2, 240>>
       \o Fill(4, 0) \o Fill(16, 0)

\* an ID3v2 tag whose body has size bytes, the size written synchsafe
Id3Tag(size) ==
  ID3 \o <<4, 0, 0>>
      \o <<(size \div 2097152) % 128, (size \div 16384) % 128, (size \div 128) % 128, size % 128>>
      \o Fill(size, 0)

\* an MPEG audio frame header: sync, version, layer, no CRC, bitrate index 9
FrameHeader(ver, layer, srIdx) ==
  <<255, 224 + 8 * ver + 2 * layer + 1, 144 + 4 * srIdx, 0>>

\* frame-sync candidates with a reserved version, layer or sample-rate index
Reserved ==
  [version |-> FrameHeader(1, 1, 0), layer |-> FrameHeader(3, 0, 0),
   srIdx |-> FrameHeader(3, 1, 3)]

\* an MP3 file: a tag (none when id3 is negative), the reserved candidates
\* junk, zeros up to gap bytes after the tag, a layer III frame header and
\* tail more bytes
Mp3File(id3, junk, gap, ver, srIdx, tail) ==
  LET tag == IF id3 < 0 THEN <<>> ELSE Id3Tag(id3)
      cands == Concat([k \in 1..Len(junk) |-> Reserved[junk[k]]])
  IN tag \o cands \o Fill(gap - Len(cands), 0) \o FrameHeader(ver, 1, srIdx) \o Fill(tail, 0)

\* an Ogg page header of 28 bytes and the Vorbis identification header
OggFile(rate) ==
  <<79, 103, 103, 83>> \o Fill(22, 0) \o <<1, 30>> \o VORBIS \o Fill(4, 0) \o <<2>>
      \o LE32(rate) \o Fill(12, 0) \o <<184, 1>>

Prefixes(bytes) == {SubSeq(bytes, 1, n) : n \in 0..Len(bytes)}

WavRates == {44100, 48000, 96000}
\* the sizes of the chunks before 'fmt ': none, odd, even, two chunks
WavPre == {<<>>, <<1>>, <<2>>, <<3, 4>>}
\* the sizes of the 'data' chunk
WavData == {0, 1, 8}
FlacRates == {44100, 96000, 1048575}
Id3Sizes == {-1, 0, 5, 200}
Mp3Junk == {<<>>, <<"version">>, <<"layer">>, <<"srIdx">>, <<"version", "layer", "srIdx">>}
Mp3Gaps == {12, 4095, 4096}

File(kind, declared, gap, bytes) ==
  [fn |-> "sniff", kind |-> kind, declared |-> declared, gap |-> gap, bytes |-> bytes]

WavFiles ==
  {File("wav", r, 0, WavFile(pre, r, d)) : pre \in WavPre, r \in WavRates, d \in WavData}

FlacFiles == {File("flac", r, 0, FlacFile(r)) : r \in FlacRates}

Mp3Files ==
  {File("mp3", Mp3Table[f[3]][f[4] + 1], f[2], Mp3File(f[1], f[5], f[2], f[3], f[4], f[6])) :
     f \in {g \in Id3Sizes \X Mp3Gaps \X {0, 2, 3} \X {0, 1, 2} \X Mp3Junk \X {1, 8} :
              g[2] > 12 => (/\ g[5] \in {<<>>, <<"srIdx">>} /\ g[6] = 8 /\ g[1] \in {-1, 5}
                            /\ g[3] = 3 /\ g[4] = 0)}}

OggFiles == {File("ogg", r, 0, OggFile(r)) : r \in {44100, 48000}}

\* a chunk header of a WAV file that claims a size the file does not have
BadChunk(id, size, len) ==
  LET head == RIFF \o LE32(len - 8) \o WAVE \o id \o LE32(size)
  IN head \o Fill(len - Len(head), 0)

\* an ID3v2 header whose four size bytes are all b in a file of len bytes
\* that are otherwise 0xFF
BadTag(b, len) ==
  LET head == ID3 \o <<4, 0, 0, b, b, b, b>>
  IN head \o Fill(len - Len(head), 255)

\* truncated and malformed files
HostileFiles ==
  {File("hostile", 0, 0, b) :
     b \in Prefixes(WavFile(<<1>>, 44100, 1))
           \cup Prefixes(WavFile(<<>>, 48000, 8))
           \cup Prefixes(FlacFile(44100))
           \cup Prefixes(Mp3File(5, <<"version">>, 8, 3, 0, 8))
           \cup Prefixes(OggFile(44100) \o VORBIS \o Fill(8, 0))
           \cup Prefixes(Fill(24, 255))
           \cup {BadChunk(id, size, len) : id \in {LIST, FMT},
                   size \in {0, 1, 7, 16, 28, 29, 2147479552}, len \in {45, 46, 52, 60}}
           \cup {BadTag(b, len) : b \in {0, 1, 127, 255}, len \in {11, 12, 15, 40}}}

\* the sample rate of the AudioContext of the fallback, 0 when
\* decodeAudioData rejects
DecoderOutcomes == {0, 44100, 48000}

InitSniff ==
  /\ Loaded
  /\ input \in WavFiles \cup FlacFiles \cup Mp3Files \cup OggFiles \cup HostileFiles
  /\ output = <<>>

\* getOriginalSampleRate: the header steps, then the decoder fallback
getOriginalSampleRate ==
  /\ input.fn = "sniff"
  /\ output = <<>>
  /\ \E hw \in DecoderOutcomes :
       LET header == SniffHeader(input.bytes)
       IN output' = <<[header |-> header,
                       result |-> IF header.kind = "throws" THEN [kind |-> "rejected", rate |-> 0]
                                  ELSE IF header.kind = "rate"
                                  THEN [kind |-> "resolved", rate |-> header.rate]
                                  ELSE IF hw = 0 THEN [kind |-> "rejected", rate |-> 0]
                                  ELSE [kind |-> "resolved", rate |-> hw]]>>
  /\ UNCHANGED <<ProgramVars, input>>

NextSniff == getOriginalSampleRate

SpecSniff == InitSniff /\ [][NextSniff]_vars

(******************  the buffers of a request (part_009)  ******************)
\* An ArrayBuffer is its samples and whether it has been detached; the heap
\* is the sequence of the buffers allocated so far and a Float32Array is the
\* index of its buffer, 0 for an argument that was not passed.
Buffer(data) == [data |-> data, detached |-> FALSE]

\* new Float32Array(typedArray): a fresh buffer holding a copy
NewFloat32Array(heap, ref) ==
  Append(heap, Buffer(IF heap[ref].detached THEN <<>> ELSE heap[ref].data))

\* worker.postMessage(message, transfer): a DataCloneError when a buffer of
\* the transfer list is detached or listed twice; else the worker is sent the
\* samples of the arrays of the message and the listed buffers are detached
postMessage(heap, arrays, transfer) ==
  IF \/ \E k \in 1..Len(transfer) : heap[transfer[k]].detached
     \/ \E k, l \in 1..Len(transfer) : k # l /\ transfer[k] = transfer[l]
  THEN [heap |-> heap, threw |-> TRUE, message |-> <<>>]
  ELSE [heap |-> [b \in 1..Len(heap) |->
                    IF \E k \in 1..Len(transfer) : transfer[k] = b
                    THEN [data |-> <<>>, detached |-> TRUE]
                    ELSE heap[b]],
        threw |-> FALSE,
        message |-> [k \in 1..Len(arrays) |-> heap[arrays[k]].data]]

\* analyze() that hands the caller's own arrays to the worker
PostAnalyzeNoCopy(heap, audioData, leftChannel, rightChannel) ==
  LET left == IF leftChannel # 0 THEN leftChannel ELSE audioData
      right == IF rightChannel # 0 THEN rightChannel ELSE audioData
  IN postMessage(heap, <<left, right>>, <<left, right>>)

\* the body of analyze() from the copies on
PostAnalyze(heap, audioData, leftChannel, rightChannel) ==
  LET h1 == NewFloat32Array(heap, IF leftChannel # 0 THEN leftChannel ELSE audioData)
      left == Len(h1)
      h2 == NewFloat32Array(h1, IF rightChannel # 0 THEN rightChannel ELSE audioData)
      right == Len(h2)
  IN postMessage(h2, <<left, right>>, <<left, right>>)

\* the body of analyzeBpmKey() from the copy on
PostAnalyzeBpmKey(heap, audioData) ==
  LET h1 == NewFloat32Array(heap, audioData)
      data == Len(h1)
  IN postMessage(h1, <<data>>, <<data>>)

\* the samples of a channel array that is not audioData
OwnData == {<<1>>, <<0, -1>>}

InitTransfer ==
  /\ Loaded
  /\ input \in [fn : {"transfer"}, kind : {"analyze", "analyzeBpmKey"},
                 audioData : Channels, leftData : OwnData, rightData : OwnData,
                 leftChannel : {0, 1, 2}, rightChannel : {0, 1, 2, 3}]
  /\ input.kind = "analyzeBpmKey" => input.leftChannel = 0 /\ input.rightChannel = 0
  /\ input.leftChannel # 2 => input.leftData = <<1>>
  /\ input.rightChannel # 3 => input.rightData = <<1>>
  /\ output = <<>>

\* the heap before the next call
HeapNow ==
  IF output = <<>>
  THEN <<Buffer(input.audioData), Buffer(input.leftData), Buffer(input.rightData)>>
  ELSE output[Len(output)].heap

\* analyze() or analyzeBpmKey() on the ready analyzer with the caller's arrays
PostRequest ==
  /\ input.fn = "transfer"
  /\ Len(output) < MaxPosts
  /\ output' = Append(output,
                 IF input.kind = "analyze"
                 THEN PostAnalyze(HeapNow, 1, input.leftChannel, input.rightChannel)
                 ELSE PostAnalyzeBpmKey(HeapNow, 1))
  /\ UNCHANGED <<ProgramVars, input>>

NextTransfer == PostRequest

SpecTransfer == InitTransfer /\ [][NextTransfer]_vars

(*****************************  properties  ********************************)
InitIds == 1..Len(inits)
CallIds == 1..Len(calls)

\* C1: init() calls made while an earlier init() is still pending (on the
\* same or another instance) get the promise of that earlier call and post
\* nothing, so that one 'init' request serves all of them, and they settle
\* together with the same value.
C1_SingleFlight ==
  \A j \in InitIds :
    /\ \A i \in inits[j].joined :
         /\ inits[j].promise = inits[i].promise
         /\ inits[j].state = inits[i].state
         /\ inits[j].value = inits[i].value
    /\ inits[j].joined # {} => inits[j].posted = 0
    /\ (inits[j].joined = {} /\ inits[j].initAtCall # "done") => inits[j].posted = 1

C1_Witness ==
  \E j \in InitIds : \E i \in inits[j].joined :
    /\ inits[i].owner # inits[j].owner
    /\ inits[j].state = "resolved"
    /\ inits[j].value = "2.1.1"

\* C2: every message that triggers a callback, the resolve or the reject
\* of a call was produced by the worker for that call.
C2_Attribution ==
  \A c \in CallIds : \A k \in 1..Len(calls[c].log) : calls[c].log[k].req = c

\* the terminal message of the call a message was produced for
IsTerminal(m) ==
  /\ m.req # 0
  /\ \/ m.type = "error"
     \/ calls[m.req].kind = "analyze" /\ m.type = "complete"
     \/ calls[m.req].kind = "analyzeBpmKey" /\ m.type = "bpmKeyComplete"

\* C3: on the channel no message of a call follows the terminal message of
\* that call, and no message of a settled call is on the channel.
C3_TerminalLast ==
  /\ \A k \in 1..Len(toMain) : \A l \in (k + 1)..Len(toMain) :
       IsTerminal(toMain[k]) => toMain[l].req # toMain[k].req
  /\ \A k \in 1..Len(toMain) :
       toMain[k].req # 0 => calls[toMain[k].req].state = "pending"

\* the requests posted whose terminal message has not been received
Outstanding ==
  {c \in CallIds :
     \/ \E k \in 1..Len(toWorker) : toWorker[k].type # "init" /\ toWorker[k].req = c
     \/ \E k \in 1..Len(toMain) : toMain[k].req = c /\ IsTerminal(toMain[k])}

\* C4: at most one analyze/analyzeBpmKey request is outstanding.
C4_OneAtATime == Cardinality(Outstanding) <= 1

ItemOf(its, id) == CHOOSE i \in 1..Len(its) : its[i].id = id
HasItem(its, id) == \E i \in 1..Len(its) : its[i].id = id

RunFinishes(r) ==
  /\ r \in 1..Len(runs')
  /\ runs'[r].pc = "finished"
  /\ r \in 1..Len(runs) => runs[r].pc # "finished"

\* C5: when a startAnalysis run finishes, every item of its queue that
\* was pending is still in the queue, is 'error' with a non-empty message if
\* its decode or analyze threw and 'done' otherwise: no item after a
\* failing one was left out.
C5_FailureIsolation ==
  [][\A r \in 1..MaxRuns : RunFinishes(r) =>
       \A k \in 1..Len(runs'[r].snapshot) :
         LET id == runs'[r].snapshot[k].id IN
         runs'[r].snapshot[k].status = "pending" =>
           /\ HasItem(items', id)
           /\ LET it == items'[ItemOf(items', id)] IN
              IF id \in threw'
              THEN it.status = "error" /\ it.error # NULL /\ it.error # ""
              ELSE it.status = "done"]_vars

C5_Witness ==
  \E r \in 1..Len(runs) :
    /\ runs[r].pc = "finished"
    /\ Len(runs[r].snapshot) >= 2
    /\ runs[r].snapshot[1].id \in threw
    /\ HasItem(items, runs[r].snapshot[2].id)
    /\ items[ItemOf(items, runs[r].snapshot[2].id)].status = "done"

Forward(a, b) ==
  \/ a = b
  \/ a = "pending" /\ b = "decoding"
  \/ a = "decoding" /\ b = "analyzing"
  \/ a = "analyzing" /\ b = "done"
  \/ a \in {"pending", "decoding", "analyzing"} /\ b = "error"

\* C6: the status of an item of the queue only moves forward, and not at
\* all once it is 'done' or 'error'.
C6_StatusMonotone ==
  [][\A i \in 1..Len(items) :
       HasItem(items', items[i].id) =>
         Forward(items[i].status, items'[ItemOf(items', items[i].id)].status)]_vars

\* C7: a run during which clear() was called begins no further item.
C7_ClearStopsRun ==
  \A r \in 1..Len(runs) : ~runs[r].begunAfterClear

\* C8: a call of analyze/analyzeBpmKey made when no init() has resolved is
\* rejected with 'Analyzer not initialized', posts no request and registers
\* no listener.
C8_NotInitialized ==
  \A c \in CallIds :
    calls[c].initAtCall # "done" =>
      /\ calls[c].state = "rejected"
      /\ calls[c].value = NotInitialized
      /\ ~calls[c].posted
      /\ ~calls[c].registered
      /\ calls[c].log = <<>>

C8_Witness ==
  \E c \in CallIds : calls[c].initAtCall = "failed" /\ calls[c].state = "rejected"

\* the 'error' answer of the worker to an init request is dispatched
InitErrorDispatched ==
  /\ toMain # <<>>
  /\ Head(toMain).type = "error"
  /\ Head(toMain).req = 0
  /\ toMain' = Tail(toMain)

\* C9: when the worker's 'error' answer to an init request is dispatched,
\* every pending init() is rejected with the worker's message and the
\* analyzer is not ready; an init() made when all earlier ones have failed
\* posts exactly one 'init' request and is pending.
C9_FailedInitRetries ==
  [][/\ InitErrorDispatched =>
          /\ \A i \in InitIds : inits[i].state = "pending" =>
                /\ inits'[i].state = "rejected"
                /\ inits'[i].value = Head(toMain).data
          /\ ~workerReady'
     /\ \A j \in (Len(inits) + 1)..Len(inits') :
          inits'[j].initAtCall = "failed" =>
            /\ inits'[j].posted = 1
            /\ inits'[j].state = "pending"]_vars

C9_Witness ==
  \E j \in InitIds : inits[j].initAtCall = "failed" /\ inits[j].state = "resolved"

\* C10: once an init() has resolved, workerReady is and stays true, no
\* 'init' request is posted any more, and every later init() is resolved
\* when it returns.
C10_ReadyCached ==
  [][/\ workerReady => workerReady'
     /\ InitProgress(Main) = "done" =>
          /\ workerReady
          /\ ~(/\ Len(toWorker') > Len(toWorker)
               /\ toWorker'[Len(toWorker')].type = "init")
     /\ \A j \in (Len(inits) + 1)..Len(inits') :
          inits'[j].initAtCall = "done" =>
            /\ inits'[j].state = "resolved"
            /\ inits'[j].posted = 0]_vars

C10_Witness ==
  \E j \in InitIds :
    /\ inits[j].initAtCall = "done"
    /\ inits[j].state = "resolved"
    /\ inits[j].owner # inits[1].owner

\* C11: every init() that has resolved, when the worker reported a version
\* string in its 'ready' message, resolved with that string.
C11_ResolvesWithVersion ==
  LET strings == reported \ {"undefined"} IN
  \A j \in InitIds :
    (inits[j].state = "resolved" /\ strings # {}) => inits[j].value \in strings

\* the progress messages among the messages a call has acted on
ProgressOf(log) == SelectSeq(log, LAMBDA m : m.type = "progress")

\* C12: the percent values delivered to onProgress of an analyze call are
\* within 0..100 and never decrease; when the call acts on 'complete', the
\* last progress message delivered before it has phase 'done' and percent
\* 100, and the 'complete' of the call's own request is preceded by one.
C12_ProgressMonotone ==
  \A c \in CallIds :
    calls[c].kind = "analyze" =>
      LET log == calls[c].log
          ps == ProgressOf(log)
      IN /\ \A k \in 1..Len(ps) : ps[k].percent \in 0..100
         /\ \A k \in 1..(Len(ps) - 1) : ps[k].percent <= ps[k + 1].percent
         /\ \A k \in 1..Len(log) :
              log[k].type = "complete" =>
                /\ ps # <<>> => (ps[Len(ps)].phase = "done" /\ ps[Len(ps)].percent = 100)
                /\ log[k].req = c => ps # <<>>

C12_Witness ==
  \E c \in CallIds :
    /\ calls[c].kind = "analyze"
    /\ calls[c].state = "resolved"
    /\ Len(ProgressOf(calls[c].log)) = 4
    /\ \E k \in 1..Len(calls[c].log) : calls[c].log[k].data = "loudnessDefault+stereo"

\* the request examined alone has been handled
Handled == input.fn = "analyzeBpmKey" /\ output # <<>>

HasMessage(type) ==
  \E i \in 1..Len(output[1].messages) : output[1].messages[i].type = type

\* C13: when RhythmExtractor2013 throws, bpmConfidence is 0 and bpm is the
\* bpm PercivalBpmEstimator returned, or 0 when that estimator throws too;
\* bpmKeyComplete is posted and no error.
C13_TempoCascade ==
  (Handled /\ input.k.vec = "ok" /\ input.k.rhythm # "ok") =>
    LET k == input.k
        data == output[1].data
    IN /\ data.bpmConfidence = 0
       /\ (k.percival = "ok" /\ k.percivalResult.bpm # <<>>) =>
            data.bpm = k.percivalResult.bpm[1]
       /\ k.percival = "throws" => data.bpm = 0
       /\ HasMessage("bpmKeyComplete")
       /\ ~HasMessage("error")

\* the cases that differ from k in the tempo track only / the key track only
TempoVariants(k) ==
  {[k EXCEPT !.rhythm = v.rhythm, !.percival = v.percival,
             !.rhythmResult = v.rhythmResult, !.percivalResult = v.percivalResult] :
     v \in AllBpmKeyCases}

KeyVariants(k) ==
  {[k EXCEPT !.keyx = v.keyx, !.fallback = v.fallback, !.numFrames = v.numFrames,
             !.keyResult = v.keyResult, !.keyOut = v.keyOut] :
     v \in AllBpmKeyCases}

\* C14: when KeyExtractor throws, the key comes from the frame-by-frame
\* fallback; when the fallback throws too or has no frame, key and scale are
\* '' and keyStrength is 0; bpmKeyComplete is posted and no error; the key
\* result does not depend on the tempo track nor the bpm result on the key
\* track.
C14_KeyCascade ==
  (Handled /\ input.k.vec = "ok") =>
    LET k == input.k
        data == output[1].data
    IN /\ HasMessage("bpmKeyComplete")
       /\ ~HasMessage("error")
       /\ (k.keyx = "throws" /\ k.fallback = "ok" /\ k.numFrames > 0) =>
            /\ data.key = Nullish(k.keyOut.key, "")
            /\ data.scale = Nullish(k.keyOut.scale, "")
            /\ data.keyStrength = Nullish(k.keyOut.strength, 0)
       /\ (k.keyx = "throws" /\ (k.fallback # "ok" \/ k.numFrames <= 0)) =>
            data.key = "" /\ data.scale = "" /\ data.keyStrength = 0
       /\ \A v \in TempoVariants(k) :
            LET d == runBpmKeyAnalysis(1, v, TRUE).data
            IN d.key = data.key /\ d.scale = data.scale /\ d.keyStrength = data.keyStrength
       /\ \A v \in KeyVariants(k) :
            LET d == runBpmKeyAnalysis(1, v, TRUE).data
            IN d.bpm = data.bpm /\ d.bpmConfidence = data.bpmConfidence

\* the messages of the given type of a sequence of messages
OfType(msgs, type) == SelectSeq(msgs, LAMBDA m : m.type = type)

\* C15: when LoudnessEBUR128 throws, the loudness/stereo partial is posted
\* with integratedLUFS -Infinity, loudnessRange 0 and empty momentary and
\* short-term series, the quality partial is posted after it, and the
\* messages end with 'complete' and hold no 'error'.
C15_LoudnessFailureContained ==
  (input.fn = "analyze" /\ output # <<>> /\ input.outcome = "loudnessFails") =>
    LET msgs == output[1].messages
        partials == OfType(msgs, "partial")
    IN /\ Len(partials) = 2
       /\ FragKeys(partials[1].data) = {"loudness", "stereo"}
       /\ FragKeys(partials[2].data) = {"quality"}
       /\ output[1].partial # <<>>
       /\ LET loudness == output[1].partial[1].loudness
          IN /\ loudness.integratedLUFS = NegInfinity
             /\ loudness.loudnessRange = 0
             /\ loudness.momentaryLoudness = <<>>
             /\ loudness.shortTermLoudness = <<>>
       /\ msgs[Len(msgs)].type = "complete"
       /\ OfType(msgs, "error") = <<>>

C15_Witness ==
  /\ input.fn = "analyze"
  /\ input.outcome = "loudnessFails"
  /\ input.ebuResult.integratedLoudness # <<>>
  /\ output # <<>>
  /\ output[1].partial # <<>>

\* C16: when the analyze call a useAnalysis instance awaits is rejected, the
\* result holding the fragments merged so far is left as it is, and it
\* stays so while the error is displayed.
C16_PartialNotRetracted ==
  [][\A h \in HookIds :
       /\ (hooks[h].pc = "awaitAnalyze" /\ hooks'[h].error # NULL) =>
            hooks'[h].result = hooks[h].result
       /\ (hooks[h].pc = "idle" /\ hooks[h].error # NULL) =>
            hooks'[h].result = hooks[h].result]_vars

C16_Witness ==
  \E h \in HookIds :
    /\ hooks[h].pc = "idle"
    /\ hooks[h].error # NULL
    /\ hooks[h].error # NotInitialized
    /\ {"loudness", "stereo"} \subseteq hooks[h].result.frags

\* C17: the queue never holds more than 20 items, and a call of addFiles
\* with n files appends the first min(n, 20 - length) of them, in order, as
\* 'pending' items with null fileInfo, result and error, and leaves the
\* items already queued as they are.
C17_Capacity ==
  [][/\ Len(items') <= 20
     /\ nextFile' # nextFile =>
          LET n == nextFile' - nextFile
              room == 20 - Len(items)
              k == IF n < room THEN n ELSE room
          IN /\ Len(items') = Len(items) + k
             /\ SubSeq(items', 1, Len(items)) = items
             /\ \A i \in 1..k :
                  items'[Len(items) + i] =
                    [id |-> nextFile + i, fileInfo |-> 0, result |-> NullResult,
                     status |-> "pending", error |-> NULL]]_vars

\* a call of addFiles was cut short at a full queue that also holds an item
\* already processed
C17_Witness ==
  /\ Len(items) = 20
  /\ items[20].id < nextFile
  /\ items[1].status \in {"done", "error"}

\* the runs that have an item in flight: its decode, the init of its
\* analyzer or its analyze call has not settled
InFlight == {r \in 1..Len(runs) : runs[r].pc \in {"decoding", "awaitItemInit", "awaitAnalyze"}}

\* C18: a run begins the items in queue order (ids grow along the queue), at
\* no time are two items of the queue 'decoding' or 'analyzing', and at no
\* time have two runs an item in flight.
C18_OneItemAtATime ==
  /\ \A r \in 1..Len(runs) : \A a, b \in 1..Len(runs[r].begun) :
       a < b => runs[r].begun[a] < runs[r].begun[b]
  /\ Cardinality({i \in 1..Len(items) : items[i].status \in {"decoding", "analyzing"}}) <= 1
  /\ Cardinality(InFlight) <= 1

\* C19: driven through BatchView, removeItem never removes an item while a
\* run of startAnalysis is still processing.
C19_RemoveOnlyWhenIdle == ~removedWhileRunning

\* after a run over two items has finished, its first item was removed and
\* its second one kept
C19_Witness ==
  /\ ~RunInProgress
  /\ ~isRunning
  /\ \E r \in 1..Len(runs) :
       /\ Len(runs[r].snapshot) = 2
       /\ Len(runs[r].begun) > 0
       /\ ~HasItem(items, runs[r].snapshot[1].id)
       /\ HasItem(items, runs[r].snapshot[2].id)

\* C20: the stereo width of the partial result is 0 when the left and the
\* right channel agree on every sample, and greater than 0 when they differ
\* on at least one sample.
C20_StereoWidth ==
  (output # <<>> /\ input.fn = "analyze" /\ output[1].partial # <<>>) =>
    LET width == output[1].partial[1].stereo.width
        len == Min(Len(input.left), Len(input.right))
        same == \A i \in 1..len : input.left[i] = input.right[i]
    IN /\ same => width[1] = 0
       /\ ~same => width[1] > 0

AllZero(samples) == \A i \in 1..Len(samples) : samples[i] = 0

\* C21: for all-zero channels of any length the true peak is -Infinity, the
\* stereo width is 0, head and tail silence are both length / sampleRate, and
\* startIsZero and endIsZero are both true.
C21_SilentInput ==
  (output # <<>> /\ input.fn = "signal" /\ AllZero(input.left) /\ AllZero(input.right)) =>
    /\ output[1].truePeak.negInfinity
    /\ output[1].width[1] = 0
    /\ output[1].quality.headSilence = <<Len(input.left), input.sampleRate>>
    /\ output[1].quality.tailSilence = <<Len(input.left), input.sampleRate>>
    /\ output[1].quality.startIsZero
    /\ output[1].quality.endIsZero

\* silent channels of three samples or more were measured
C21_Witness ==
  /\ output # <<>>
  /\ input.fn = "signal"
  /\ Len(input.left) >= 3
  /\ Len(input.right) >= 3
  /\ AllZero(input.left)
  /\ AllZero(input.right)
  /\ output[1].quality.headSilence[1] = Len(input.left)

\* C22: for channels that are not all zero, the value whose logarithm
\* computeTruePeak returns is at least the largest absolute sample of both
\* channels, and equals it when both channels have fewer than 4 samples.
C22_TruePeakAtLeastSamplePeak ==
  (output # <<>> /\ input.fn = "signal"
     /\ ~(AllZero(input.left) /\ AllZero(input.right))) =>
    LET peak == SetMax({Abs(input.left[i]) : i \in 1..Len(input.left)}
                        \cup {Abs(input.right[i]) : i \in 1..Len(input.right)})
        tp == output[1].truePeak
    IN /\ ~tp.negInfinity
       /\ tp.maxAbs >= 128 * peak
       /\ (Len(input.left) < 4 /\ Len(input.right) < 4) => tp.maxAbs = 128 * peak

\* an interpolated point lies above every sample
C22_Witness ==
  /\ output # <<>>
  /\ input.fn = "signal"
  /\ ~output[1].truePeak.negInfinity
  /\ output[1].truePeak.maxAbs > output[1].truePeak.maxSample

\* C23: for a WAV file whose 'fmt ' chunk declares 44100, 48000 or 96000,
\* whatever chunks precede it, and for a FLAC file whose STREAMINFO encodes a
\* rate, getOriginalSampleRate resolves with exactly that rate.
C23_HeaderRoundTrip ==
  (output # <<>> /\ input.fn = "sniff" /\ input.kind \in {"wav", "flac"}) =>
    /\ output[1].result.kind = "resolved"
    /\ output[1].result.rate = input.declared

\* C24: for every file, well formed, truncated or malformed, the header
\* steps read inside the buffer only, the chunk walk moves forward in every
\* round, and the steps return a rate or fall through to the decoder: they
\* do not throw.
C24_HeaderScanTotal ==
  (output # <<>> /\ input.fn = "sniff") =>
    /\ output[1].header.inside
    /\ output[1].header.advances
    /\ output[1].header.kind \in {"rate", "none"}

\* a file with the RIFF/WAVE magic whose first chunk claims far more bytes
\* than the file has fell through every step
C24_Witness ==
  /\ output # <<>>
  /\ input.fn = "sniff"
  /\ input.kind = "hostile"
  /\ Len(input.bytes) > 44
  /\ SubSeq(input.bytes, 1, 4) = RIFF
  /\ getUint32(input.bytes, 16) > Len(input.bytes)
  /\ output[1].header.kind = "none"

\* C25: in an MP3 file whose first valid frame header lies gap bytes after
\* the ID3 tag (or after the start of a file without a tag), with reserved
\* candidates before it, the scan skips the reserved candidates and yields
\* the rate of the table for the header's version and index when gap is
\* below 4096, and finds no frame when it is not.
C25_Mp3FrameScan ==
  (output # <<>> /\ input.fn = "sniff" /\ input.kind = "mp3") =>
    IF input.gap < 4096
    THEN /\ output[1].header.kind = "rate"
         /\ output[1].header.rate = input.declared
         /\ output[1].result = [kind |-> "resolved", rate |-> input.declared]
    ELSE output[1].header.kind = "none"

\* a frame was found behind an ID3 tag and three reserved candidates
C25_Witness ==
  /\ output # <<>>
  /\ input.fn = "sniff"
  /\ input.kind = "mp3"
  /\ SubSeq(input.bytes, 1, 3) = ID3
  /\ Mp3Off(input.bytes) > 10
  /\ FrameSync(input.bytes, Mp3Off(input.bytes))
  /\ ~Mp3Valid(input.bytes, Mp3Off(input.bytes))
  /\ FrameSync(input.bytes, Mp3Off(input.bytes) + 8)
  /\ output[1].header.kind = "rate"
  /\ output[1].header.rate = 24000

\* what a callback or the promise of a call is handed from a message
Shape(m) ==
  [type |-> m.type, phase |-> m.phase, percent |-> m.percent,
   frags |-> IF m.type = "partial" THEN FragKeys(m.data) ELSE {}]

\* the messages of a successful analyze request, in emission order
SuccessfulAnalyze ==
  <<[type |-> "progress", phase |-> "phase1", percent |-> 5, frags |-> {}],
    [type |-> "progress", phase |-> "phase1", percent |-> 40, frags |-> {}],
    [type |-> "progress", phase |-> "phase1", percent |-> 70, frags |-> {}],
    [type |-> "partial", phase |-> "", percent |-> 0, frags |-> {"loudness", "stereo"}],
    [type |-> "partial", phase |-> "", percent |-> 0, frags |-> {"quality"}],
    [type |-> "progress", phase |-> "done", percent |-> 100, frags |-> {}],
    [type |-> "complete", phase |-> "", percent |-> 0, frags |-> {}]>>

\* C26: an analyze call that has resolved was handed, in this order and
\* nothing else, progress(phase1,5), progress(phase1,40), progress(phase1,70),
\* partial{loudness,stereo}, partial{quality}, progress(done,100) and then
\* the 'complete' that resolved it.
C26_EmissionOrder ==
  \A c \in CallIds :
    (calls[c].kind = "analyze" /\ calls[c].state = "resolved") =>
      [k \in 1..Len(calls[c].log) |-> Shape(calls[c].log[k])] = SuccessfulAnalyze

\* C27: every analyze or analyzeBpmKey request posted to the worker, whatever
\* its sampleRate, is answered: the promise of its call eventually settles.
C27_EveryRequestAnswered ==
  \A c \in 1..MaxCalls :
    (Len(calls) >= c /\ calls[c].posted)
      ~> (Len(calls) >= c /\ calls[c].state # "pending")

\* what the worker is to be sent for the caller's arrays
Expected ==
  IF input.kind = "analyzeBpmKey" THEN <<input.audioData>>
  ELSE LET data(ref) == IF ref = 2 THEN input.leftData
                        ELSE IF ref = 3 THEN input.rightData
                        ELSE input.audioData
       IN <<data(input.leftChannel), data(input.rightChannel)>>

\* C28: after each call of analyze or analyzeBpmKey the caller's arrays hold
\* the samples they held before and are not detached, the call did not throw,
\* and a later call with the same arrays sends the worker the same samples.
C28_CallerBuffersSurvive ==
  (input.fn = "transfer") =>
    \A n \in 1..Len(output) :
      /\ ~output[n].threw
      /\ output[n].heap[1] = Buffer(input.audioData)
      /\ output[n].heap[2] = Buffer(input.leftData)
      /\ output[n].heap[3] = Buffer(input.rightData)
      /\ output[n].message = Expected

\* two analyze calls were made with a left channel of its own and the right
\* channel being the same array as the left
C28_Witness ==
  /\ input.fn = "transfer"
  /\ input.kind = "analyze"
  /\ input.leftChannel = 2
  /\ input.rightChannel = 2
  /\ Len(input.audioData) = 2
  /\ Len(output) = 2
  /\ output[2].message = <<input.leftData, input.leftData>>
  /\ \A b \in 4..Len(output[2].heap) : output[2].heap[b].detached

\* C29: an item that is 'done' has its fileInfo, a result carrying that
\* fileInfo and no error; an item that is 'error' has an error and no
\* result; an item that is 'pending' or 'decoding' has no fileInfo, no result
\* and no error; an item that is 'analyzing' has its fileInfo and no result.
C29_ItemFields ==
  \A i \in 1..Len(items) :
    LET it == items[i] IN
    /\ it.status = "done" =>
         /\ it.fileInfo # 0
         /\ ~it.result.isNull
         /\ it.result.fileInfo = it.fileInfo
         /\ it.error = NULL
    /\ it.status = "error" => (it.error # NULL /\ it.result.isNull)
    /\ it.status \in {"pending", "decoding"} =>
         (it.fileInfo = 0 /\ it.result.isNull /\ it.error = NULL)
    /\ it.status = "analyzing" => (it.fileInfo # 0 /\ it.result.isNull)

\* run r finishes in this step because its init failed: it took no snapshot
InitFailedRun(r) == RunFinishes(r) /\ runs'[r].idx = 0

\* C30: driven through BatchView, isRunning is true as long as a run of
\* startAnalysis has not finished; when isRunning is false no item is
\* 'decoding' or 'analyzing'; and a run whose init fails changes no item and
\* leaves isRunning false.
C30_IsRunningTracksLoop ==
  [][/\ RunInProgress' => isRunning'
     /\ ~isRunning' =>
          \A i \in 1..Len(items') : items'[i].status \notin {"decoding", "analyzing"}
     /\ \A r \in 1..MaxRuns : InitFailedRun(r) => (items' = items /\ ~isRunning')]_vars

\* a run on a queue with a pending item has ended on a failed init
C30_Witness ==
  /\ ~isRunning
  /\ \E r \in 1..Len(runs) : runs[r].pc = "finished" /\ runs[r].idx = 0
  /\ \E i \in 1..Len(items) : items[i].status = "pending"

====
